---- MODULE Spec2Model ----
(***************************************************************************)
(* PyStoneDisplay: the response framer (StoneResponseBuffer), the response *)
(* decoder (StoneResponseType.decode), the per-widget command queue        *)
(* (StoneWidget), the widget traversal and the ping/timeout state of       *)
(* StoneDisplay.  Bytes are the integers 0..255.                           *)
(***************************************************************************)
EXTENDS Integers, Sequences, FiniteSets, TLC

\* ------------------------------------------------------------- bounds
\* total number of bytes fed to the buffer in the byte-level specification
MaxFed == 7
\* longest chunk one push call delivers in the byte-level specification
MaxChunk == 2
\* widgets constructed, the home window included, in the tree specification
MaxWidgets == 5
\* the clock of the connection specification stops at MaxTime
MaxTime == 3
\* the longest ping timeout, in clock ticks
MaxTimeout == 2
\* frames one read cycle finds queued, left over and newly read together
MaxFrames == 2
\* well-formed streams: number of spans, payload length, leading noise length
MaxSpans == 2
MaxPayload == 2
MaxNoise == 2
\* the longest frame handed to decode on its own, header included
MaxRaw == 7
\* response codes 1..MaxCode are given to new response types
MaxCode == 3

\* pieces (tokens and single token bytes) a stream of the reset
\* specification is made of
MaxPieces == 5

\* keyword arguments one push_command call is given in the fields
\* specification
MaxFields == 2

\* ------------------------------------------------------- stone_commands
\* 'ST<'
message_start == <<83, 84, 60>>
\* '>ET'
message_end == <<62, 69, 84>>

\* the bytes the framing tokens are made of: '<', '>', 'E', 'S', 'T'
TokenBytes == {60, 62, 69, 83, 84}

\* str.endswith on the accumulated bytes (chr is one-to-one on 0..255)
EndsWith(s, t) == Len(s) >= Len(t) /\ SubSeq(s, Len(s) - Len(t) + 1, Len(s)) = t

\* StoneResponseBuffer.__init__
NewBuffer == [buffer |-> <<>>, buffering |-> FALSE, queue |-> <<>>]

\* process_byte that queues the accumulator with its end token left on
process_byte_keep_end(rb, byte) ==
    LET appended == Append(rb.buffer, byte)
        emit == rb.buffering /\ EndsWith(appended, message_end)
        restart == EndsWith(appended, message_start)
    IN  [buffer |-> IF restart THEN <<>> ELSE appended,
         buffering |-> IF restart THEN TRUE ELSE (rb.buffering /\ ~emit),
         queue |-> IF emit THEN Append(rb.queue, appended) ELSE rb.queue]

\* process_byte that takes a start token for payload while it is buffering
process_byte_reset_idle(rb, byte) ==
    LET appended == Append(rb.buffer, byte)
        emit == rb.buffering /\ EndsWith(appended, message_end)
        frame == SubSeq(appended, 1, Len(appended) - Len(message_end))
        restart == ~rb.buffering /\ EndsWith(appended, message_start)
    IN  [buffer |-> IF restart THEN <<>> ELSE appended,
         buffering |-> IF restart THEN TRUE ELSE (rb.buffering /\ ~emit),
         queue |-> IF emit THEN Append(rb.queue, frame) ELSE rb.queue]

\* process_byte that queues a frame at every end token, buffering or not
process_byte_unarmed(rb, byte) ==
    LET appended == Append(rb.buffer, byte)
        emit == EndsWith(appended, message_end)
        frame == SubSeq(appended, 1, Len(appended) - Len(message_end))
        restart == EndsWith(appended, message_start)
    IN  [buffer |-> IF restart THEN <<>> ELSE appended,
         buffering |-> IF restart THEN TRUE ELSE (rb.buffering /\ ~emit),
         queue |-> IF emit THEN Append(rb.queue, frame) ELSE rb.queue]

\* StoneResponseBuffer.process_byte on the record rb of the three fields
process_byte(rb, byte) ==
    LET appended == Append(rb.buffer, byte)
        emit == rb.buffering /\ EndsWith(appended, message_end)
        frame == SubSeq(appended, 1, Len(appended) - Len(message_end))
        restart == EndsWith(appended, message_start)
    IN  [buffer |-> IF restart THEN <<>> ELSE appended,
         buffering |-> IF restart THEN TRUE ELSE (rb.buffering /\ ~emit),
         queue |-> IF emit THEN Append(rb.queue, frame) ELSE rb.queue]

\* the loop of push: process_byte for every byte of data, in order; the
\* buffer after a byte is a value before the next byte is taken
RECURSIVE process_bytes(_, _)
process_bytes(rb, data) ==
    IF data = <<>> THEN rb
    ELSE CHOOSE after \in {process_bytes(next, Tail(data)) :
                               next \in {process_byte(rb, Head(data))}} : TRUE

\* push that starts every call with an empty accumulator
push_fresh(rb, data) == process_bytes([rb EXCEPT !.buffer = <<>>], data)

\* StoneResponseBuffer.push
push(rb, data) == process_bytes(rb, data)

\* Python's None, and a value that is not None
None == <<>>
Some(x) == <<x>>

\* the slice raw[a:b] of Python, which stops at the end of raw
Slice(raw, a, b) == SubSeq(raw, a + 1, IF b < Len(raw) THEN b ELSE Len(raw))

\* int.from_bytes(bytes, 'big')
RECURSIVE from_bytes_big(_)
from_bytes_big(bytes) ==
    IF bytes = <<>> THEN 0
    ELSE from_bytes_big(SubSeq(bytes, 1, Len(bytes) - 1)) * 256 + bytes[Len(bytes)]

\* int.from_bytes(bytes, 'little')
RECURSIVE from_bytes_little(_)
from_bytes_little(bytes) ==
    IF bytes = <<>> THEN 0
    ELSE bytes[1] + 256 * from_bytes_little(Tail(bytes))

\* a dict as the sequence of its [key, value] entries in insertion order
DictKeys(d) == {d[i].key : i \in 1..Len(d)}
DictIndex(d, k) == CHOOSE i \in 1..Len(d) : d[i].key = k
DictGet(d, k) == d[DictIndex(d, k)].value
\* d[k] = v: an existing key keeps its place, a new key goes last
DictSet(d, k, v) ==
    IF k \in DictKeys(d)
    THEN [d EXCEPT ![DictIndex(d, k)] = [key |-> k, value |-> v]]
    ELSE Append(d, [key |-> k, value |-> v])
\* d.pop(k)
DictPop(d, k) ==
    LET i == DictIndex(d, k)
    IN  SubSeq(d, 1, i - 1) \o SubSeq(d, i + 1, Len(d))

\* StoneCommandType(cmd_code, cmd_type)
StoneCommandType(code, type) ==
    [cmd_code |-> code, cmd_type |-> type, scoped |-> FALSE, widget |-> None]

\* StoneWidgetCommandType(cmd_code, widget_type), type_name being the type's tag
StoneWidgetCommandType(code, type_name) ==
    [cmd_code |-> code, cmd_type |-> type_name, scoped |-> TRUE, widget |-> None]

\* StoneWidgetCommandType.for_widget: a copy with the widget assigned
for_widget(ctype, w) == [ctype EXCEPT !.widget = Some(w)]

\* for_widget that assigns the widget to the command type it is called on
for_widget_self_assigned(ctype, w) == [ctype EXCEPT !.widget = Some(w)]

\* StoneWidgetCommandType.for_widget: what the call leaves of the command
\* type it is called on, the widget being assigned to the copy
for_widget_self(ctype, w) == ctype

\* new that creates the command whether or not a widget is assigned
new_unchecked(ctype) ==
    [error |-> "none",
     cmd_code |-> ctype.cmd_code,
     cmd_type |-> ctype.cmd_type,
     scoped |-> ctype.scoped,
     widget |-> ctype.widget,
     cmd_items |-> <<>>]

\* StoneCommandType.new and StoneWidgetCommandType.new: the command, or the
\* ValueError of a widget command type with no widget
new(ctype) ==
    IF ctype.scoped /\ ctype.widget = None
    THEN [error |-> "ValueError"]
    ELSE [error |-> "none",
          cmd_code |-> ctype.cmd_code,
          cmd_type |-> ctype.cmd_type,
          scoped |-> ctype.scoped,
          widget |-> ctype.widget,
          cmd_items |-> <<>>]

\* StoneCommand.__setitem__ for each keyword argument, in order
RECURSIVE setitems(_, _)
setitems(command, kwargs) ==
    IF kwargs = <<>> THEN command
    ELSE setitems([command EXCEPT !.cmd_items =
                       DictSet(@, Head(kwargs).key, Head(kwargs).value)],
                  Tail(kwargs))

\* the body of StoneCommand for a widget command too
body_system(command, names) ==
    <<[key |-> "cmd_code", value |-> command.cmd_code],
      [key |-> "type", value |-> command.cmd_type]>>

\* StoneCommand.body and StoneWidgetCommand.body, names being the instance
\* names of the widgets
body(command, names) ==
    IF command.scoped
    THEN <<[key |-> "cmd_code", value |-> command.cmd_code],
           [key |-> "type", value |-> command.cmd_type],
           [key |-> "widget", value |-> names[command.widget[1]]]>>
    ELSE <<[key |-> "cmd_code", value |-> command.cmd_code],
           [key |-> "type", value |-> command.cmd_type]>>

\* {**d, **e}: the entries of d, then those of e, a key of both keeping its
\* place in d and taking its value in e
RECURSIVE DictUpdate(_, _)
DictUpdate(d, e) ==
    IF e = <<>> THEN d
    ELSE DictUpdate(DictSet(d, Head(e).key, Head(e).value), Tail(e))

\* StoneCommand.serialized: message_start, the JSON object of the body and
\* the items, message_end; the object is kept as its entries in order
serialized(command, names) ==
    [start |-> message_start,
     object |-> DictUpdate(body(command, names), command.cmd_items),
     end |-> message_end]

\* parse_widget_name that does not split at the space
parse_widget_name_whole(raw) == raw

\* StoneWidgetResponseType.parse_widget_name: the ASCII bytes before the
\* first space
RECURSIVE parse_widget_name(_)
parse_widget_name(raw) ==
    IF raw = <<>> \/ Head(raw) = 32 THEN <<>>
    ELSE <<Head(raw)>> \o parse_widget_name(Tail(raw))

\* a hello parser that takes any payload for a yes
parse_any_payload(parser, raw_data) ==
    IF parser = "hello"
    THEN <<[key |-> "connected", value |-> TRUE]>>
    ELSE <<[key |-> "data", value |-> raw_data]>>

\* the parser of a response type applied to the payload: the hello parser is
\* lambda data: {'connected': data == b'\x01'}
parse(parser, raw_data) ==
    IF parser = "hello"
    THEN <<[key |-> "connected", value |-> (raw_data = <<1>>)]>>
    ELSE <<[key |-> "data", value |-> raw_data]>>

\* StoneResponseType.new and StoneWidgetResponseType.new
new_response(rtype, raw_data) ==
    IF rtype.scoped
    THEN [kind |-> "StoneWidgetResponse",
          cmd_code |-> rtype.cmd_code,
          cmd_data |-> parse(rtype.parser, raw_data),
          raw_data |-> raw_data,
          widget_name |-> parse_widget_name(raw_data)]
    ELSE [kind |-> "StoneResponse",
          cmd_code |-> rtype.cmd_code,
          cmd_data |-> parse(rtype.parser, raw_data),
          raw_data |-> raw_data]

\* decode that lets the failed lookup of a code that is not registered out
\* as an error
decode_raise_unknown(raw, types) ==
    LET cmd_code == from_bytes_big(Slice(raw, 0, 2))
        cmd_len == from_bytes_big(Slice(raw, 2, 4))
        raw_data == Slice(raw, 4, Len(raw))
    IN  IF Len(raw_data) # cmd_len THEN [kind |-> "ValueError"]
        ELSE IF cmd_code \in DictKeys(types)
        THEN new_response(DictGet(types, cmd_code), raw_data)
        ELSE [kind |-> "ValueError"]

\* decode that looks the code up before it compares the lengths
decode_lookup_first(raw, types) ==
    LET cmd_code == from_bytes_big(Slice(raw, 0, 2))
        cmd_len == from_bytes_big(Slice(raw, 2, 4))
        raw_data == Slice(raw, 4, Len(raw))
    IN  IF cmd_code \notin DictKeys(types) THEN [kind |-> "None"]
        ELSE IF Len(raw_data) # cmd_len THEN [kind |-> "ValueError"]
        ELSE new_response(DictGet(types, cmd_code), raw_data)

\* decode that does not compare the lengths
decode_unchecked(raw, types) ==
    LET cmd_code == from_bytes_big(Slice(raw, 0, 2))
        raw_data == Slice(raw, 4, Len(raw))
    IN  IF cmd_code \in DictKeys(types)
        THEN new_response(DictGet(types, cmd_code), raw_data)
        ELSE [kind |-> "None"]

\* StoneResponseType.decode with the registry types: the response, None for
\* a code that is not registered, or the ValueError of a length mismatch
decode(raw, types) ==
    LET cmd_code == from_bytes_big(Slice(raw, 0, 2))
        cmd_len == from_bytes_big(Slice(raw, 2, 4))
        raw_data == Slice(raw, 4, Len(raw))
    IN  IF Len(raw_data) # cmd_len THEN [kind |-> "ValueError"]
        ELSE IF cmd_code \in DictKeys(types)
        THEN new_response(DictGet(types, cmd_code), raw_data)
        ELSE [kind |-> "None"]

\* ------------------------------------------------------- stone_widget
\* push_command that drops the queued command of the same code and queues
\* the new one last
push_command_requeue(cq, w, ctype, kwargs) ==
    LET bound == IF ctype.scoped THEN for_widget(ctype, w) ELSE ctype
        command == setitems(new(bound), kwargs)
        others == SelectSeq(cq, LAMBDA e : e.key # command.cmd_code)
    IN  Append(others, [key |-> command.cmd_code, value |-> command])

\* StoneWidget.push_command(command type, **kwargs) on widget w whose queue
\* is cq: the queue afterwards
push_command(cq, w, ctype, kwargs) ==
    LET bound == IF ctype.scoped THEN for_widget(ctype, w) ELSE ctype
        command == setitems(new(bound), kwargs)
    IN  DictSet(cq, command.cmd_code, command)

\* StoneWidget.has_commands
has_commands(cq) == Len(cq) > 0

\* StoneWidget.pop_command on a queue that has commands: the first key's
\* command and the queue without it
pop_command(cq) ==
    LET first_key == cq[1].key
    IN  [command |-> DictGet(cq, first_key), rest |-> DictPop(cq, first_key)]

\* the command types every StoneWidget declares
set_enable == StoneWidgetCommandType("set_enable", "widget")
set_visible == StoneWidgetCommandType("set_visible", "widget")
set_xy == StoneWidgetCommandType("set_xy", "widget")

\* ---------------------------------------------------------------- state
VARIABLES
    buffer,             \* StoneResponseBuffer.buffer
    buffering,          \* StoneResponseBuffer.buffering
    queue,              \* StoneResponseBuffer.queue
    windows,            \* StoneDisplay.windows: widget ids, home window first
    children,           \* StoneWidget.children, by widget id
    instance_name,      \* StoneWidget.instance_name, by widget id (ASCII bytes)
    command_queue,      \* StoneWidget.command_queue, by widget id
    props,              \* StoneWidget._enabled, _visible, (_x, _y), by widget id
    response_handlers,  \* StoneWidget.response_handlers, by widget id
    existing_types,     \* StoneResponseType.existing_types
    _connected,         \* StoneDisplay._connected
    ping_timeout_time,  \* StoneDisplay.ping_timeout_time
    serial,             \* StoneDisplay.serial is set
    now,                \* the clock datetime.now() reads
    fed,                \* history: every byte pushed so far, in order
    popped,             \* history: the frames pop has returned, in order
    pop_none,           \* history: the last pop returned None
    sent,               \* history: the payloads of the spans pushed, in order
    last_push,          \* history: the bytes of the last push call
    handled,            \* history: the handler calls of the last read cycle
    written,            \* history: the packets the last write cycle wrote
    _brightness,        \* StoneDisplay._brightness
    _index,             \* StoneSlideView._index, StoneViewSwitch._index, by
                        \* widget id; None for a widget of another class
    widget_class,       \* the class of each widget, by widget id
    templates,          \* StoneWidget.set_visible, the command type object
                        \* each widget holds, by widget id
    answered,           \* history: the payload of the latest hello response
                        \* handled, once one was handled before the pending
                        \* ping's deadline; None again at the next ping call
    op,                 \* history: the last operation called, with its arguments
    ret,                \* history: what it returned, None if nothing
    err                 \* history: the exception it raised, or "none"

bufVars == <<buffer, buffering, queue>>
treeVars == <<windows, children, instance_name>>
widgetVars == <<command_queue, props, response_handlers>>
connVars == <<_connected, ping_timeout_time, serial>>
histVars == <<fed, popped, pop_none, sent, last_push>>
callVars == <<op, ret, err>>
ioVars == <<handled, written, answered>>
viewVars == <<_brightness, _index, widget_class, templates>>
vars == <<bufVars, treeVars, widgetVars, viewVars, existing_types, connVars,
          now, histVars, ioVars, callVars>>

\* the three fields of the response buffer as one record
RB == [buffer |-> buffer, buffering |-> buffering, queue |-> queue]

\* all byte sequences over S of length lo..hi
SeqsOf(S, lo, hi) == UNION {[1..n -> S] : n \in lo..hi}

\* 'home_page', 'w1', 'w2' in ASCII
home_page == <<104, 111, 109, 101, 95, 112, 97, 103, 101>>
w1 == <<119, 49>>
w2 == <<119, 50>>

\* the widget id of StoneDisplay._home_window: the first widget constructed
home_window == 1

\* StoneWidget.__init__: _enabled, _visible, _x, _y
NewProps == [enabled |-> TRUE, visible |-> TRUE, xy |-> <<-1, -1>>]

\* StoneDisplay.sys_hello_response: code 0x0001, parser data == b'\x01'
sys_hello_response == [cmd_code |-> 1, scoped |-> FALSE, parser |-> "hello"]

\* the state StoneDisplay.__init__ leaves: the home window alone, the hello
\* response registered and handled by _set_connected, not connected, no ping
\* pending, no serial port
Init ==
    /\ buffer = <<>>
    /\ buffering = FALSE
    /\ queue = <<>>
    /\ windows = <<home_window>>
    /\ children = << <<>> >>
    /\ instance_name = <<home_page>>
    /\ command_queue = << <<>> >>
    /\ props = <<NewProps>>
    /\ response_handlers = << <<[key |-> 1, value |-> "_set_connected"]>> >>
    /\ existing_types = <<[key |-> 1, value |-> sys_hello_response]>>
    /\ _brightness = 100
    /\ _index = <<None>>
    /\ widget_class = <<"StoneWindow">>
    /\ templates = [w \in 1..1 |-> set_visible]
    /\ _connected = FALSE
    /\ ping_timeout_time = None
    /\ serial = FALSE
    /\ now = 0
    /\ fed = <<>>
    /\ popped = <<>>
    /\ pop_none = FALSE
    /\ sent = <<>>
    /\ last_push = <<>>
    /\ handled = <<>>
    /\ written = <<>>
    /\ answered = None
    /\ op = [name |-> "__init__"]
    /\ ret = None
    /\ err = "none"

\* what an operation on the response buffer alone leaves as it is
BufferOnly ==
    UNCHANGED <<treeVars, widgetVars, existing_types, viewVars, connVars, now, ioVars,
                callVars>>

\* ------------------------------------------- byte-level specification
\* response_buffer.push(data) for one chunk of bytes
BufPush(data) ==
    /\ Len(fed) + Len(data) <= MaxFed
    /\ \E rb \in {push(RB, data)} :
           /\ buffer' = rb.buffer
           /\ buffering' = rb.buffering
           /\ queue' = rb.queue
    /\ fed' = fed \o data
    /\ pop_none' = FALSE
    /\ last_push' = data
    /\ UNCHANGED <<popped, sent>>
    /\ BufferOnly

\* response_buffer.pop()
BufPop ==
    /\ IF Len(queue) > 0
       THEN /\ popped' = Append(popped, Head(queue))
            /\ queue' = Tail(queue)
            /\ pop_none' = FALSE
       ELSE /\ pop_none' = TRUE
            /\ UNCHANGED <<popped, queue>>
    /\ UNCHANGED <<buffer, buffering, fed, sent, last_push>>
    /\ BufferOnly

BufPushAny == \E data \in SeqsOf(TokenBytes, 1, MaxChunk) : BufPush(data)

NextBuffer ==
    \/ BufPushAny
    \/ BufPop

SpecBuffer == Init /\ [][NextBuffer]_vars

\* C2: however the bytes were cut into push calls, the buffer is in the state
\* one push of all of them into a new buffer leaves (the frames already
\* popped being the head of that push's queue).
PartialDelivery ==
    LET whole == push(NewBuffer, fed)
    IN  /\ popped \o queue = whole.queue
        /\ buffer = whole.buffer
        /\ buffering = whole.buffering

\* a frame came out of a stream whose end token was cut between two pushes
PartialDeliveryWitness ==
    /\ Len(popped \o queue) = 1
    /\ last_push = <<69, 84>>
    /\ Len(fed) = MaxFed

\* ------------------------------------- well-formed stream specification
\* t occurs in s as a contiguous run of bytes
Contains(s, t) ==
    \E i \in 1..(Len(s) - Len(t) + 1) : SubSeq(s, i, i + Len(t) - 1) = t

\* byte sequences of length at most n holding neither framing token
TokenFree(n) ==
    {s \in SeqsOf(TokenBytes, 0, n) :
        ~Contains(s, message_start) /\ ~Contains(s, message_end)}

\* the bytes of the spans 'ST<' + payload + '>ET', one after the other
RECURSIVE Wire(_)
Wire(payloads) ==
    IF payloads = <<>> THEN <<>>
    ELSE message_start \o Head(payloads) \o message_end \o Wire(Tail(payloads))

\* response_buffer.push(noise + spans) into the new, empty buffer
PushStream(noise, payloads) ==
    /\ \E data \in {noise \o Wire(payloads)} :
       \E rb \in {push(RB, data)} :
           /\ buffer' = rb.buffer
           /\ buffering' = rb.buffering
           /\ queue' = rb.queue
           /\ fed' = data
           /\ last_push' = data
    /\ sent' = payloads
    /\ pop_none' = FALSE
    /\ UNCHANGED popped
    /\ BufferOnly

\* the one push of the stream, into the buffer as constructed
PushStreamAny ==
    /\ fed = <<>>
    /\ popped = <<>>
    /\ ~pop_none
    /\ \E noise \in TokenFree(MaxNoise) :
           \E n \in 0..MaxSpans :
               \E payloads \in [1..n -> TokenFree(MaxPayload)] :
                   PushStream(noise, payloads)

\* the stream is pushed once; afterwards the caller only pops
FramingPop == fed # <<>> /\ BufPop

NextFraming ==
    \/ PushStreamAny
    \/ FramingPop

SpecFraming == Init /\ [][NextFraming]_vars

\* C1: after one push of noise and N well-formed spans into an empty buffer,
\* the frames popped and the frames still queued are the N payloads in span
\* order; once pop has returned None the popped frames are exactly the N
\* payloads.
FramingRoundTrip ==
    fed # <<>> =>
        /\ popped \o queue = sent
        /\ (pop_none => popped = sent /\ queue = <<>>)

\* a stream of leading noise and two spans, the first payload not empty,
\* has been pushed and popped until None
FramingWitness ==
    /\ pop_none
    /\ Len(sent) = 2
    /\ sent[1] # <<>>
    /\ popped = sent
    /\ fed[1] # message_start[1]

\* ------------------------------------------------- reset specification
\* what a stream is made of: the two tokens and the single bytes of them
Pieces == {message_start, message_end} \cup {<<b>> : b \in TokenBytes}

\* the pieces one after another
RECURSIVE Concat(_)
Concat(pieces) == IF pieces = <<>> THEN <<>> ELSE Head(pieces) \o Concat(Tail(pieces))

\* response_buffer.push(data) into the buffer as constructed
PushPieces(data) ==
    /\ fed = <<>>
    /\ popped = <<>>
    /\ ~pop_none
    /\ \E rb \in {push(RB, data)} :
           /\ buffer' = rb.buffer
           /\ buffering' = rb.buffering
           /\ queue' = rb.queue
    /\ fed' = data
    /\ last_push' = data
    /\ pop_none' = FALSE
    /\ UNCHANGED <<popped, sent>>
    /\ BufferOnly

PushPiecesAny ==
    \E n \in 1..MaxPieces : \E pieces \in [1..n -> Pieces] :
        PushPieces(Concat(pieces))

NextReset ==
    \/ PushPiecesAny
    \/ FramingPop

SpecReset == Init /\ [][NextReset]_vars

\* the places of fed where a start token ends, and the places after place s
\* where an end token ends that lies wholly behind s
StartsIn(bytes) ==
    {i \in 3..Len(bytes) : SubSeq(bytes, i - 2, i) = message_start}
EndsBehind(bytes, s) ==
    {e \in (s + 3)..Len(bytes) : SubSeq(bytes, e - 2, e) = message_end}
Greatest(S) == CHOOSE x \in S : \A y \in S : y <= x
Least(S) == CHOOSE x \in S : \A y \in S : x <= y

\* C19: once a start token has been received, the accumulator holds the bytes
\* received after the most recent start token and no others; bytes that end
\* with the start token leave it empty and the buffer armed, whatever came
\* before; the buffer stays armed until the first end token behind that start
\* token, and the frame emitted there is the bytes between the two.
FrameReset ==
    LET frames == popped \o queue
    IN  StartsIn(fed) # {} =>
            LET s == Greatest(StartsIn(fed))
                ends == EndsBehind(fed, s)
            IN  /\ buffer = SubSeq(fed, s + 1, Len(fed))
                /\ s = Len(fed) => buffer = <<>> /\ buffering
                /\ buffering <=> ends = {}
                /\ ends # {} =>
                       /\ frames # <<>>
                       /\ frames[Len(frames)] = SubSeq(fed, s + 1, Least(ends) - 3)

\* 'ST<' 'T' 'ST<' 'E' '>ET' was pushed: the one frame is 'E', the 'T' of
\* the frame that was cut off being discarded
FrameResetWitness ==
    /\ fed = message_start \o <<84>> \o message_start \o <<69>> \o message_end
    /\ popped \o queue = << <<69>> >>
    /\ ~buffering

\* the start token ending at place s of fed has an end token behind it
\* before the next start token
Closed(s) ==
    \E e \in EndsBehind(fed, s) : \A t \in StartsIn(fed) : ~(s < t /\ t < e)

\* C25: a frame is emitted only by an end token that finds the buffer armed:
\* before any start token nothing is emitted and the buffer is not armed, and
\* each start token accounts for at most one frame, the one its first end
\* token emits if no other start token comes before; so the frames emitted
\* are at most as many as the start tokens seen.
EmitOnlyArmed ==
    LET frames == popped \o queue
    IN  /\ Len(frames) <= Cardinality(StartsIn(fed))
        /\ Len(frames) = Cardinality({s \in StartsIn(fed) : Closed(s)})
        /\ StartsIn(fed) = {} => frames = <<>> /\ ~buffering

\* '>ET' 'ST<' 'T' '>ET' '>ET' was pushed: one start token, three end
\* tokens, one frame
EmitOnlyArmedWitness ==
    /\ fed = message_end \o message_start \o <<84>> \o message_end \o message_end
    /\ popped \o queue = << <<84>> >>
    /\ ~buffering

\* ------------------------------------------------------ stone_display
\* the sequence in reverse order
Reverse(q) == [i \in 1..Len(q) |-> q[Len(q) + 1 - i]]

\* the loop of all_widgets on the deque dq (left end first), ch the children
\* of every widget: pop() takes the right end, extendleft(children) puts the
\* children at the left end one by one
RECURSIVE walk(_, _)
walk(dq, ch) ==
    IF dq = <<>> THEN <<>>
    ELSE LET next_widget == dq[Len(dq)]
             rest == SubSeq(dq, 1, Len(dq) - 1)
         IN  <<next_widget>> \o walk(Reverse(ch[next_widget]) \o rest, ch)

\* all_widgets with the children put at the right end of the deque, where
\* pop() takes them next
RECURSIVE walk_stack(_, _)
walk_stack(dq, ch) ==
    IF dq = <<>> THEN <<>>
    ELSE LET next_widget == dq[Len(dq)]
             rest == SubSeq(dq, 1, Len(dq) - 1)
         IN  <<next_widget>> \o walk_stack(rest \o Reverse(ch[next_widget]), ch)
all_widgets_stack(wins, ch) == walk_stack(wins, ch)

\* all_widgets with the deque seeded so that pop() takes the first window
\* first
all_widgets_home_first(wins, ch) == walk(Reverse(wins), ch)

\* StoneDisplay.all_widgets: the widgets in the order the generator yields them
all_widgets(wins, ch) == walk(wins, ch)

\* StoneDisplay.find_by_name: the first widget of the traversal with the
\* name, None standing for the KeyError
find_by_name(key, wins, ch, names) ==
    LET order == all_widgets(wins, ch)
        hits == {i \in 1..Len(order) : names[order[i]] = key}
    IN  IF hits = {} THEN None
        ELSE Some(order[CHOOSE i \in hits : \A j \in hits : i <= j])

\* _is_timed_out with the deadline itself not counted as passed
is_timed_out_late(deadline, t) == deadline # None /\ t > deadline[1]

\* StoneDisplay._is_timed_out at clock time t
is_timed_out(deadline, t) == deadline # None /\ t >= deadline[1]

\* handle_response whose _set_connected stores the flag and leaves the
\* deadline pending
handle_response_keep_deadline(st, w, response, handlers) ==
    IF response.cmd_code \notin DictKeys(handlers[w]) THEN st
    ELSE LET call == [widget |-> w,
                      cmd_code |-> response.cmd_code,
                      raw_data |-> response.raw_data]
             called == [st EXCEPT !.handled = Append(@, call)]
         IN  IF DictGet(handlers[w], response.cmd_code) = "_set_connected"
             THEN [called EXCEPT !.connected = DictGet(response.cmd_data, "connected")]
             ELSE called

\* StoneWidget.handle_response on widget w within the read cycle state st:
\* no handler, nothing; the home window's _set_connected(**cmd_data) clears
\* the deadline and stores the flag; any other handler is only recorded
handle_response(st, w, response, handlers) ==
    IF response.cmd_code \notin DictKeys(handlers[w]) THEN st
    ELSE LET call == [widget |-> w,
                      cmd_code |-> response.cmd_code,
                      raw_data |-> response.raw_data]
             called == [st EXCEPT !.handled = Append(@, call)]
         IN  IF DictGet(handlers[w], response.cmd_code) = "_set_connected"
             THEN [called EXCEPT !.deadline = None,
                                 !.connected = DictGet(response.cmd_data, "connected")]
             ELSE called

\* the loop of read_responses, "while packet := pop()": it ends at an empty
\* queue and at an empty frame, and an exception of decode or find_by_name
\* ends it with the frame popped
RECURSIVE read_loop(_, _, _, _, _, _)
read_loop(st, types, handlers, wins, ch, names) ==
    IF st.queue = <<>> THEN st
    ELSE LET packet == Head(st.queue)
             taken == [st EXCEPT !.queue = Tail(@)]
             response == decode(packet, types)
         IN  IF packet = <<>> THEN taken
             ELSE IF response.kind = "ValueError"
             THEN [taken EXCEPT !.err = "ValueError"]
             ELSE IF response.kind = "StoneWidgetResponse"
             THEN LET target == find_by_name(response.widget_name, wins, ch, names)
                  IN  IF target = None
                      THEN [taken EXCEPT !.err = "KeyError"]
                      ELSE read_loop(handle_response(taken, target[1], response, handlers),
                                     types, handlers, wins, ch, names)
             ELSE IF response.kind = "StoneResponse"
             THEN read_loop(handle_response(taken, home_window, response, handlers),
                            types, handlers, wins, ch, names)
             ELSE read_loop(taken, types, handlers, wins, ch, names)

\* gather_commands with "if widget.has_commands" for the while: one command
\* of each widget
RECURSIVE gather_commands_one(_, _)
gather_commands_one(order, cq) ==
    IF order = <<>> THEN <<>>
    ELSE (IF has_commands(cq[Head(order)])
          THEN <<pop_command(cq[Head(order)]).command>> ELSE <<>>)
             \o gather_commands_one(Tail(order), cq)

\* StoneDisplay.gather_commands over the widgets in order: every command of a
\* widget, from the front of its queue, before the next widget's
RECURSIVE gather_commands(_, _)
gather_commands(order, cq) ==
    IF order = <<>> THEN <<>>
    ELSE [i \in 1..Len(cq[Head(order)]) |-> cq[Head(order)][i].value]
             \o gather_commands(Tail(order), cq)

\* ------------------------------------------------ widget operations
Widgets == 1..Len(children)

\* what an operation on one widget's queue leaves as it is
QueueOnly ==
    UNCHANGED <<bufVars, treeVars, response_handlers, existing_types, viewVars, connVars,
                now, histVars, ioVars>>

\* StoneWidget.enabled setter
SetEnabled(w, value) ==
    /\ props' = [props EXCEPT ![w].enabled = value]
    /\ command_queue' = [command_queue EXCEPT ![w] =
           push_command(@, w, set_enable, <<[key |-> "enable", value |-> value]>>)]
    /\ op' = [name |-> "enabled", widget |-> w, value |-> value]
    /\ ret' = None
    /\ err' = "none"
    /\ QueueOnly

\* StoneWidget.visible setter
SetVisible(w, value) ==
    /\ props' = [props EXCEPT ![w].visible = value]
    /\ command_queue' = [command_queue EXCEPT ![w] =
           push_command(@, w, set_visible, <<[key |-> "visible", value |-> value]>>)]
    /\ op' = [name |-> "visible", widget |-> w, value |-> value]
    /\ ret' = None
    /\ err' = "none"
    /\ QueueOnly

\* StoneWidget.xy setter
SetXY(w, value) ==
    /\ props' = [props EXCEPT ![w].xy = value]
    /\ command_queue' = [command_queue EXCEPT ![w] =
           push_command(@, w, set_xy, <<[key |-> "x", value |-> value[1]],
                                        [key |-> "y", value |-> value[2]]>>)]
    /\ op' = [name |-> "xy", widget |-> w, value |-> value]
    /\ ret' = None
    /\ err' = "none"
    /\ QueueOnly

\* StoneWidget.pop_command
PopCommand(w) ==
    /\ IF has_commands(command_queue[w])
       THEN LET r == pop_command(command_queue[w])
            IN  /\ command_queue' = [command_queue EXCEPT ![w] = r.rest]
                /\ ret' = Some(r.command)
                /\ err' = "none"
       ELSE /\ ret' = None
            /\ err' = "ValueError"
            /\ UNCHANGED command_queue
    /\ op' = [name |-> "pop_command", widget |-> w]
    /\ UNCHANGED props
    /\ QueueOnly

\* StoneWidget(name, parent) with a parent of the display's tree
NewWidget(name, parent) ==
    /\ Len(children) < MaxWidgets
    /\ children' = Append([children EXCEPT ![parent] = Append(@, Len(children) + 1)],
                          <<>>)
    /\ instance_name' = Append(instance_name, name)
    /\ command_queue' = Append(command_queue, <<>>)
    /\ props' = Append(props, NewProps)
    /\ response_handlers' = Append(response_handlers, <<>>)
    /\ _index' = Append(_index, None)
    /\ widget_class' = Append(widget_class, "StoneWidget")
    /\ templates' = Append(templates, set_visible)
    /\ op' = [name |-> "StoneWidget", parent |-> parent]
    /\ ret' = Some(Len(children) + 1)
    /\ err' = "none"
    /\ UNCHANGED <<bufVars, windows, _brightness, existing_types, connVars, now,
                   histVars, ioVars>>

\* StoneDisplay.add_window(name)
AddWindow(name) ==
    /\ Len(children) < MaxWidgets
    /\ windows' = Append(windows, Len(children) + 1)
    /\ children' = Append(children, <<>>)
    /\ instance_name' = Append(instance_name, name)
    /\ command_queue' = Append(command_queue, <<>>)
    /\ props' = Append(props, NewProps)
    /\ response_handlers' = Append(response_handlers, <<>>)
    /\ _index' = Append(_index, None)
    /\ widget_class' = Append(widget_class, "StoneWindow")
    /\ templates' = Append(templates, set_visible)
    /\ op' = [name |-> "add_window"]
    /\ ret' = Some(Len(children) + 1)
    /\ err' = "none"
    /\ UNCHANGED <<bufVars, _brightness, existing_types, connVars, now, histVars,
                   ioVars>>

\* --------------------------------------- command queue specification
\* the values the property setters are given
Coordinates == {<<0, 0>>, <<1, 2>>}

\* the display as constructed and one widget w1 under its home window
InitQueue ==
    /\ buffer = <<>>
    /\ buffering = FALSE
    /\ queue = <<>>
    /\ windows = <<home_window>>
    /\ children = << <<2>>, <<>> >>
    /\ instance_name = <<home_page, w1>>
    /\ command_queue = << <<>>, <<>> >>
    /\ props = <<NewProps, NewProps>>
    /\ response_handlers = << <<[key |-> 1, value |-> "_set_connected"]>>, <<>> >>
    /\ existing_types = <<[key |-> 1, value |-> sys_hello_response]>>
    /\ _brightness = 100
    /\ _index = <<None, None>>
    /\ widget_class = <<"StoneWindow", "StoneWidget">>
    /\ templates = [w \in 1..2 |-> set_visible]
    /\ _connected = FALSE
    /\ ping_timeout_time = None
    /\ serial = FALSE
    /\ now = 0
    /\ fed = <<>>
    /\ popped = <<>>
    /\ pop_none = FALSE
    /\ sent = <<>>
    /\ last_push = <<>>
    /\ handled = <<>>
    /\ written = <<>>
    /\ answered = None
    /\ op = [name |-> "StoneWidget", parent |-> home_window]
    /\ ret = Some(2)
    /\ err = "none"

SetEnabledAny == \E w \in Widgets : \E value \in BOOLEAN : SetEnabled(w, value)
SetVisibleAny == \E w \in Widgets : \E value \in BOOLEAN : SetVisible(w, value)
SetXYAny == \E w \in Widgets : \E value \in Coordinates : SetXY(w, value)
PopCommandAny == \E w \in Widgets : PopCommand(w)

NextQueue ==
    \/ SetEnabledAny
    \/ SetVisibleAny
    \/ SetXYAny
    \/ PopCommandAny

SpecQueue == InitQueue /\ [][NextQueue]_vars

\* the codes of a queue in queue order
Codes(cq) == [i \in 1..Len(cq) |-> cq[i].key]

\* the code and the fields the setter recorded in o queues
SetterCode(o) ==
    CASE o.name = "enabled" -> "set_enable"
      [] o.name = "visible" -> "set_visible"
      [] o.name = "xy" -> "set_xy"
SetterItems(o) ==
    CASE o.name = "enabled" -> <<[key |-> "enable", value |-> o.value]>>
      [] o.name = "visible" -> <<[key |-> "visible", value |-> o.value]>>
      [] o.name = "xy" -> <<[key |-> "x", value |-> o.value[1]],
                            [key |-> "y", value |-> o.value[2]]>>

\* no queue holds two commands of one code
NoTwoOfOneCode ==
    \A w \in Widgets :
        \A i, j \in 1..Len(command_queue[w]) :
            command_queue[w][i].key = command_queue[w][j].key => i = j

\* a setter step on widget w: a code already queued keeps its place and every
\* other entry, and carries the new fields; a code not queued goes last
PushKeepsPlace(w) ==
    LET old == command_queue[w]
        now_ == command_queue'[w]
        code == SetterCode(op')
    IN  IF code \in DictKeys(old)
        THEN /\ Codes(now_) = Codes(old)
             /\ \A i \in 1..Len(old) :
                    IF old[i].key = code
                    THEN now_[i].value.cmd_items = SetterItems(op')
                    ELSE now_[i] = old[i]
        ELSE /\ Len(now_) = Len(old) + 1
             /\ SubSeq(now_, 1, Len(old)) = old
             /\ now_[Len(now_)].key = code
             /\ now_[Len(now_)].value.cmd_items = SetterItems(op')

\* a pop_command step on widget w returns the first command and leaves the rest
PopTakesFirst(w) ==
    LET old == command_queue[w]
    IN  old # <<>> => ret' = Some(old[1].value) /\ command_queue'[w] = Tail(old)

\* C3: a queue never holds two commands of one code; pushing a code that is
\* pending replaces its fields where it stands, the other codes keeping their
\* places, and pop_command returns the commands from the front.
QueueDedupOrder ==
    /\ []NoTwoOfOneCode
    /\ [][\A w \in Widgets :
            /\ (op'.name \in {"enabled", "visible", "xy"} /\ op'.widget = w)
                   => PushKeepsPlace(w)
            /\ (op'.name = "pop_command" /\ op'.widget = w) => PopTakesFirst(w)
         ]_vars

\* set_visible was pushed, then set_enable, then set_visible again with another
\* value: it is still first, with the value of the second call
QueueDedupWitness ==
    /\ op.name = "visible"
    /\ op.widget = 2
    /\ op.value = FALSE
    /\ Codes(command_queue[2]) = <<"set_visible", "set_enable">>
    /\ command_queue[2][1].value.cmd_items = <<[key |-> "visible", value |-> FALSE]>>

\* ------------------------------------------------- tree specification
\* the names widgets are constructed with
Names == {w1, w2}

NewWidgetAny == \E name \in Names : \E parent \in Widgets : NewWidget(name, parent)
AddWindowAny == \E name \in Names : AddWindow(name)

NextTree ==
    \/ NewWidgetAny
    \/ AddWindowAny

SpecTree == Init /\ [][NextTree]_vars

\* the widget whose children hold w, for a widget that is no window
ParentOf(w) == CHOOSE p \in Widgets : \E i \in 1..Len(children[p]) : children[p][i] = w
\* w's place among its parent's children
ChildIndex(w) == CHOOSE i \in 1..Len(children[ParentOf(w)]) : children[ParentOf(w)][i] = w
IsWindow(w) == \E i \in 1..Len(windows) : windows[i] = w
RECURSIVE Depth(_)
Depth(w) == IF IsWindow(w) THEN 0 ELSE 1 + Depth(ParentOf(w))

\* pre-order depth-first: a widget, then the whole subtree of each child in turn
RECURSIVE PreOrder(_)
RECURSIVE PreOrderAll(_)
PreOrder(w) == <<w>> \o PreOrderAll(children[w])
PreOrderAll(ws) == IF ws = <<>> THEN <<>> ELSE PreOrder(Head(ws)) \o PreOrderAll(Tail(ws))

\* level order: every widget once, no widget before a widget nearer the root,
\* and widgets of one depth in the order of their parents, then of the
\* parent's children
LevelOrder(v) ==
    /\ Len(v) = Len(children)
    /\ {v[i] : i \in 1..Len(v)} = Widgets
    /\ \A i, j \in 1..Len(v) :
           i < j =>
               /\ Depth(v[i]) <= Depth(v[j])
               /\ (Depth(v[i]) = Depth(v[j]) /\ Depth(v[i]) > 0) =>
                      LET pi == CHOOSE k \in 1..Len(v) : v[k] = ParentOf(v[i])
                          pj == CHOOSE k \in 1..Len(v) : v[k] = ParentOf(v[j])
                      IN  \/ pi < pj
                          \/ pi = pj /\ ChildIndex(v[i]) < ChildIndex(v[j])

\* the tree of the claim: a root with children child1 and child2, in the
\* order child1, child2, and child1 with one child, root being widget r
ExampleTree(r, child1, child2, g) ==
    /\ windows = <<r>>
    /\ Len(children) = 4
    /\ children[r] = <<child1, child2>>
    /\ children[child1] = <<g>>
    /\ children[child2] = <<>>
    /\ children[g] = <<>>

\* C4 as amended: with one root window the traversal is breadth-first: level
\* order, siblings in the order they were added; the example tree is visited
\* as [root, child1, child2, G].
TraversalBreadthFirst ==
    Len(windows) = 1 =>
        /\ LevelOrder(all_widgets(windows, children))
        /\ \A c1, c2, g \in Widgets :
               ExampleTree(1, c1, c2, g) =>
                   all_widgets(windows, children) = <<1, c1, c2, g>>

\* the example tree has been built, the grandchild last
TraversalWitness == ExampleTree(1, 2, 3, 4)

\* C4 as claimed: with one root window the traversal is pre-order depth-first,
\* a widget's whole subtree before its next sibling.
TraversalPreOrder ==
    Len(windows) = 1 => all_widgets(windows, children) = PreOrder(windows[1])

\* the window at the root of w's tree, a window's place in the window list
\* and a widget's place in the traversal v
RECURSIVE RootOf(_)
RootOf(w) == IF IsWindow(w) THEN w ELSE RootOf(ParentOf(w))
WindowIndex(w) == CHOOSE i \in 1..Len(windows) : windows[i] = w
PlaceIn(v, w) == CHOOSE i \in 1..Len(v) : v[i] = w

\* C18: with several root windows all_widgets visits the windows in the
\* order of the window list, the home window first, and each window with its
\* whole subtree before the next window.
WindowsInListOrder ==
    LET v == all_widgets(windows, children)
    IN  Len(windows) > 1 =>
            /\ v[1] = home_window
            /\ \A a, b \in Widgets :
                   WindowIndex(RootOf(a)) < WindowIndex(RootOf(b)) =>
                       PlaceIn(v, a) < PlaceIn(v, b)

\* C18, what all_widgets does: the windows are visited first and in the
\* reverse of the window list, the window added last first and the home
\* window last of them, and every widget is visited once.
WindowsLastAddedFirst ==
    LET v == all_widgets(windows, children)
    IN  /\ Len(v) = Len(children)
        /\ {v[i] : i \in 1..Len(v)} = Widgets
        /\ \A i \in 1..Len(windows) : v[i] = windows[Len(windows) + 1 - i]

\* a second window was added to a home window that has a child: the
\* traversal is the second window, the home window, the child
WindowsWitness ==
    /\ windows = <<home_window, 3>>
    /\ children[home_window] = <<2>>
    /\ all_widgets(windows, children) = <<3, home_window, 2>>

\* ------------------------------------------------ display operations
\* the command type StoneDisplay.sys_hello
sys_hello == StoneCommandType("sys_hello", "system")

\* the clock moves on between two calls
Tick ==
    /\ now < MaxTime
    /\ now' = now + 1
    /\ UNCHANGED <<bufVars, treeVars, widgetVars, existing_types, viewVars, connVars,
                   histVars, ioVars, callVars>>

\* StoneDisplay.config_serial: the port is opened
ConfigSerial ==
    /\ serial' = TRUE
    /\ op' = [name |-> "config_serial"]
    /\ ret' = None
    /\ err' = "none"
    /\ UNCHANGED <<bufVars, treeVars, widgetVars, existing_types, viewVars, _connected,
                   ping_timeout_time, now, histVars, ioVars>>

\* ping that starts over when a ping is pending and not timed out
PingExtend(timeout_s) ==
    /\ IF ping_timeout_time = None \/ ~is_timed_out(ping_timeout_time, now)
       THEN /\ command_queue' = [command_queue EXCEPT ![home_window] =
                   push_command(@, home_window, sys_hello, <<>>)]
            /\ ping_timeout_time' = Some(now + timeout_s)
            /\ UNCHANGED _connected
       ELSE /\ ping_timeout_time' = None
            /\ _connected' = FALSE
            /\ UNCHANGED command_queue
    /\ answered' = None
    /\ op' = [name |-> "ping", timeout_s |-> timeout_s]
    /\ ret' = None
    /\ err' = "none"
    /\ UNCHANGED <<bufVars, treeVars, props, response_handlers, existing_types,
                   viewVars, serial, now, histVars, handled, written>>

\* ping that takes the display for not connected until the hello response
PingDisconnects(timeout_s) ==
    /\ IF ping_timeout_time = None
       THEN /\ command_queue' = [command_queue EXCEPT ![home_window] =
                   push_command(@, home_window, sys_hello, <<>>)]
            /\ ping_timeout_time' = Some(now + timeout_s)
            /\ _connected' = FALSE
       ELSE IF is_timed_out(ping_timeout_time, now)
       THEN /\ ping_timeout_time' = None
            /\ _connected' = FALSE
            /\ UNCHANGED command_queue
       ELSE UNCHANGED <<command_queue, ping_timeout_time, _connected>>
    /\ answered' = None
    /\ op' = [name |-> "ping", timeout_s |-> timeout_s]
    /\ ret' = None
    /\ err' = "none"
    /\ UNCHANGED <<bufVars, treeVars, props, response_handlers, existing_types,
                   viewVars, serial, now, histVars, handled, written>>

\* StoneDisplay.ping(timeout_s)
Ping(timeout_s) ==
    /\ IF ping_timeout_time = None
       THEN /\ command_queue' = [command_queue EXCEPT ![home_window] =
                   push_command(@, home_window, sys_hello, <<>>)]
            /\ ping_timeout_time' = Some(now + timeout_s)
            /\ UNCHANGED _connected
       ELSE IF is_timed_out(ping_timeout_time, now)
       THEN /\ ping_timeout_time' = None
            /\ _connected' = FALSE
            /\ UNCHANGED command_queue
       ELSE UNCHANGED <<command_queue, ping_timeout_time, _connected>>
    /\ answered' = None
    /\ op' = [name |-> "ping", timeout_s |-> timeout_s]
    /\ ret' = None
    /\ err' = "none"
    /\ UNCHANGED <<bufVars, treeVars, props, response_handlers, existing_types, viewVars,
                   serial, now, histVars, handled, written>>

\* connected that takes the flag to report before it looks at the deadline
ConnectedReportFirst ==
    /\ IF is_timed_out(ping_timeout_time, now)
       THEN /\ ping_timeout_time' = None
            /\ _connected' = FALSE
       ELSE UNCHANGED <<ping_timeout_time, _connected>>
    /\ ret' = Some(_connected)
    /\ op' = [name |-> "connected", pending |-> ping_timeout_time]
    /\ err' = "none"
    /\ UNCHANGED <<bufVars, treeVars, widgetVars, existing_types, viewVars, serial, now,
                   histVars, ioVars>>

\* the property StoneDisplay.connected is read; op keeps the deadline it found
Connected ==
    /\ IF is_timed_out(ping_timeout_time, now)
       THEN /\ ping_timeout_time' = None
            /\ _connected' = FALSE
            /\ ret' = Some(FALSE)
       ELSE /\ ret' = Some(_connected)
            /\ UNCHANGED <<ping_timeout_time, _connected>>
    /\ op' = [name |-> "connected", pending |-> ping_timeout_time]
    /\ err' = "none"
    /\ UNCHANGED <<bufVars, treeVars, widgetVars, existing_types, viewVars, serial, now,
                   histVars, ioVars>>

\* StoneDisplay.read_responses, serial.read_all() returning data
ReadResponses(data) ==
    /\ IF ~serial
       THEN /\ err' = "none"
            /\ UNCHANGED <<bufVars, _connected, ping_timeout_time, handled,
                           answered>>
       ELSE \E rb \in {IF data # <<>> THEN push(RB, data) ELSE RB} :
            \E st \in {read_loop([queue |-> rb.queue,
                                  connected |-> _connected,
                                  deadline |-> ping_timeout_time,
                                  handled |-> <<>>,
                                  err |-> "none"],
                                 existing_types, response_handlers,
                                 windows, children, instance_name)} :
                /\ buffer' = rb.buffer
                /\ buffering' = rb.buffering
                /\ queue' = st.queue
                /\ _connected' = st.connected
                /\ ping_timeout_time' = st.deadline
                /\ handled' = st.handled
                /\ err' = st.err
                /\ answered' =
                       LET hellos == SelectSeq(st.handled, LAMBDA call :
                                         call.cmd_code = sys_hello_response.cmd_code)
                           in_time == /\ ping_timeout_time # None
                                      /\ now < ping_timeout_time[1]
                       IN  IF hellos # <<>> /\ (answered # None \/ in_time)
                           THEN Some(hellos[Len(hellos)].raw_data)
                           ELSE answered
    /\ ret' = None
    /\ UNCHANGED <<treeVars, widgetVars, existing_types, viewVars, serial, now, histVars,
                   written>>

\* write_commands that gathers the commands before it looks for the port
WriteCommandsGatherFirst ==
    /\ LET order == all_widgets(windows, children)
           commands == gather_commands(order, command_queue)
       IN  /\ written' = IF serial
                         THEN [i \in 1..Len(commands) |->
                                  serialized(commands[i], instance_name)]
                         ELSE written
           /\ command_queue' =
                  [w \in 1..Len(command_queue) |->
                      IF \E i \in 1..Len(order) : order[i] = w
                      THEN <<>> ELSE command_queue[w]]
    /\ op' = [name |-> "write_commands"]
    /\ ret' = None
    /\ err' = "none"
    /\ UNCHANGED <<bufVars, treeVars, props, response_handlers, existing_types,
                   viewVars, connVars, now, histVars, handled, answered>>

\* StoneDisplay.write_commands
WriteCommands ==
    /\ IF ~serial
       THEN UNCHANGED <<command_queue, written>>
       ELSE LET order == all_widgets(windows, children)
                commands == gather_commands(order, command_queue)
            IN  /\ written' = [i \in 1..Len(commands) |->
                                   serialized(commands[i], instance_name)]
                /\ command_queue' =
                       [w \in 1..Len(command_queue) |->
                           IF \E i \in 1..Len(order) : order[i] = w
                           THEN <<>> ELSE command_queue[w]]
    /\ op' = [name |-> "write_commands"]
    /\ ret' = None
    /\ err' = "none"
    /\ UNCHANGED <<bufVars, treeVars, props, response_handlers, existing_types, viewVars,
                   connVars, now, histVars, handled, answered>>

\* ------------------------------------------- connection specification
\* frames the display sends: hello with payload 01, hello with payload 00,
\* hello declaring two payload bytes and carrying one, a code that is not
\* registered, and an empty frame
HelloYes == <<0, 1, 0, 1, 1>>
HelloNo == <<0, 1, 0, 1, 0>>
HelloBadLength == <<0, 1, 0, 2, 1>>
UnknownCode == <<0, 2, 0, 0>>
InFrames == {HelloYes, HelloNo, HelloBadLength, UnknownCode, <<>>}

\* one read cycle: without a serial port nothing is read; with one the
\* transport delivers whole framed responses, none too
ReadResponsesAny ==
    IF ~serial
    THEN /\ ReadResponses(<<>>)
         /\ op' = [name |-> "read_responses", frames |-> <<>>]
    ELSE \E n \in 0..(MaxFrames - Len(queue)) :
             \E frames \in [1..n -> InFrames] :
                 /\ ReadResponses(Wire(frames))
                 /\ op' = [name |-> "read_responses", frames |-> frames]

PingAny == \E timeout_s \in 0..MaxTimeout : Ping(timeout_s)

NextConn ==
    \/ Tick
    \/ ConfigSerial
    \/ PingAny
    \/ Connected
    \/ ReadResponsesAny
    \/ WriteCommands

SpecConn == Init /\ [][NextConn]_vars

\* the handler calls of the hello response among the calls h
HelloCalls(h) ==
    SelectSeq(h, LAMBDA call : call.cmd_code = sys_hello_response.cmd_code)

\* the last read cycle handled a hello response
HelloHandled == op.name = "read_responses" /\ HelloCalls(handled) # <<>>

\* the payload of the last hello response it handled
LastHelloPayload == HelloCalls(handled)[Len(HelloCalls(handled))].raw_data

\* the step is a call of ping, of the property connected, of read_responses
\* with a serial port
PingStep == op'.name = "ping" /\ now' = now
QueryStep == op'.name = "connected" /\ now' = now
ReadStep == op'.name = "read_responses" /\ now' = now /\ serial

\* C5 (as amended): after a read cycle that handled a hello response the ping
\* deadline is cleared, whatever the state before, and the display is
\* connected exactly when the payload of the last hello response handled is
\* the single byte 01.
HelloSetsConnected ==
    HelloHandled =>
        /\ ping_timeout_time = None
        /\ _connected = (LastHelloPayload = <<1>>)

\* a hello response with payload 00 answered a pending ping in time and left
\* the display not connected, the deadline cleared
HelloSetsConnectedWitness ==
    /\ HelloHandled
    /\ LastHelloPayload = <<0>>
    /\ answered = Some(<<0>>)
    /\ ~_connected
    /\ ping_timeout_time = None

\* C5 as stated: after a hello response the display is connected and the
\* deadline cleared, whatever the payload.
HelloAlwaysConnects ==
    HelloHandled => (_connected /\ ping_timeout_time = None)

\* C6: a ping call that finds a deadline at or before the current time sets
\* the display not connected and clears the deadline and queues nothing; a
\* ping call that finds no deadline, as the next one does, queues the hello
\* command on the home window and sets the deadline to now + timeout.
PingTimeout ==
    [][PingStep =>
        /\ (ping_timeout_time # None /\ now >= ping_timeout_time[1]) =>
               /\ ~_connected'
               /\ ping_timeout_time' = None
               /\ command_queue' = command_queue
        /\ ping_timeout_time = None =>
               /\ DictKeys(command_queue'[home_window]) = 
                      DictKeys(command_queue[home_window]) \cup {"sys_hello"}
               /\ ping_timeout_time' = Some(now + op'.timeout_s)
               /\ _connected' = _connected]_vars

\* a ping call has just timed the pending ping out: only that branch of ping
\* leaves no deadline
PingTimeoutWitness ==
    /\ op.name = "ping"
    /\ ping_timeout_time = None
    /\ ~_connected
    /\ now > 0

\* C7 (as amended): once a hello response was handled before the pending
\* ping's deadline, and as long as ping is not called, the deadline stays
\* cleared and every query of connected reports whether the payload of the
\* latest hello response handled is the single byte 01.
HelloPreventsTimeout ==
    (op.name = "connected" /\ answered # None) =>
        /\ ping_timeout_time = None
        /\ op.pending = None
        /\ ret = Some(answered[1] = <<1>>)

\* connected is queried at the last moment of the clock after a hello response
\* with payload 01 answered the ping in time, and reports true
HelloPreventsTimeoutWitness ==
    /\ op.name = "connected"
    /\ answered = Some(<<1>>)
    /\ ret = Some(TRUE)
    /\ now = MaxTime

\* C7 as stated: once a hello response was handled before the pending ping's
\* deadline, and as long as ping is not called, every query of connected
\* reports true.
HelloKeepsConnected ==
    (op.name = "connected" /\ answered # None) => ret = Some(TRUE)

\* C8: a query of connected that finds a deadline at or before the current
\* time sets the display not connected, clears the deadline and reports
\* false; any other query reports the flag and changes no state.
LazyTimeout ==
    [][QueryStep =>
        IF ping_timeout_time # None /\ now >= ping_timeout_time[1]
        THEN /\ ~_connected'
             /\ ping_timeout_time' = None
             /\ ret' = Some(FALSE)
        ELSE /\ ret' = Some(_connected)
             /\ UNCHANGED <<bufVars, treeVars, widgetVars, existing_types, viewVars,
                            connVars, now>>]_vars

\* a query found a deadline that had passed, cleared it and reported false
LazyTimeoutWitness ==
    /\ op.name = "connected"
    /\ op.pending # None
    /\ ret = Some(FALSE)
    /\ ~_connected
    /\ ping_timeout_time = None

\* the declared payload length of a frame differs from its payload's
BadLength(frame) ==
    /\ Len(frame) >= 4
    /\ Len(frame) - 4 # frame[3] * 256 + frame[4]

\* frames[k] is the first frame the read loop does not get past
IsFirstStop(frames, k) ==
    /\ frames[k] = <<>> \/ BadLength(frames[k])
    /\ \A j \in 1..(k - 1) : ~(frames[j] = <<>> \/ BadLength(frames[j]))

\* the handler calls a read cycle makes for the frames, all of them decoded
CallsFor(frames) ==
    LET hellos == SelectSeq(frames, LAMBDA f :
                      Len(f) >= 4 /\ ~BadLength(f) /\ f[1] = 0 /\ f[2] = 1)
    IN  [i \in 1..Len(hellos) |->
            [widget |-> home_window, cmd_code |-> 1,
             raw_data |-> SubSeq(hellos[i], 5, Len(hellos[i]))]]

\* C9 (as amended): when the read cycle meets a frame whose declared payload
\* length does not match its payload, that frame is dropped and the read
\* cycle ends there with the ValueError of decode raised to the caller; the
\* frames before it were handled and every later frame stays queued, in
\* order, for the next read cycle.
LengthErrorEndsCycle ==
    [][ReadStep =>
        LET all == queue \o op'.frames
        IN  \A k \in 1..Len(all) :
                (IsFirstStop(all, k) /\ BadLength(all[k])) =>
                    /\ err' = "ValueError"
                    /\ queue' = SubSeq(all, k + 1, Len(all))
                    /\ handled' = CallsFor(SubSeq(all, 1, k - 1))]_vars

\* a read cycle ended with the ValueError and left a later hello response in
\* the queue, not handled
LengthErrorWitness ==
    /\ op.name = "read_responses"
    /\ err = "ValueError"
    /\ queue = <<HelloYes>>
    /\ handled = <<>>
    /\ ~_connected

\* C9 as stated: a frame with a length mismatch is dropped and the same read
\* cycle decodes and routes every later frame of the queue.
LengthErrorSkipsFrame ==
    [][(ReadStep /\ \E k \in 1..Len(queue \o op'.frames) :
                        BadLength((queue \o op'.frames)[k])
             /\ \A j \in 1..Len(queue \o op'.frames) :
                        (queue \o op'.frames)[j] # <<>>) =>
        /\ queue' = <<>>
        /\ handled' = CallsFor(queue \o op'.frames)]_vars

\* the frame is complete, its lengths agree and its code is not registered
Unrecognized(frame) ==
    /\ Len(frame) >= 4
    /\ ~BadLength(frame)
    /\ frame[1] * 256 + frame[2] \notin DictKeys(existing_types)

\* C11: a read cycle whose frames are all complete and length-consistent
\* raises nothing and empties the queue, and a frame of a code that is not
\* registered among them causes no handler call: the calls are those of the
\* registered frames alone, and with no registered frame at all the
\* connection state, the handlers and the command queues stay as they were.
UnrecognizedDropped ==
    [][ReadStep =>
        LET all == queue \o op'.frames
        IN  ((\E k \in 1..Len(all) : Unrecognized(all[k])) /\
             (\A k \in 1..Len(all) : all[k] # <<>> /\ ~BadLength(all[k]))) =>
                /\ err' = "none"
                /\ ret' = None
                /\ queue' = <<>>
                /\ handled' = CallsFor(all)
                /\ (\A k \in 1..Len(all) : Unrecognized(all[k])) =>
                       /\ handled' = <<>>
                       /\ UNCHANGED <<_connected, ping_timeout_time, widgetVars>>]_vars

\* a read cycle met a frame of the code 0x0002, not registered, dropped it,
\* and went on to the hello response behind it
UnrecognizedWitness ==
    /\ op.name = "read_responses"
    /\ Len(op.frames) = 2
    /\ op.frames[1] = UnknownCode
    /\ op.frames[2] = HelloYes
    /\ Len(handled) = 1
    /\ _connected
    /\ queue = <<>>
    /\ err = "none"

\* C20: a ping call while a ping is pending and its deadline has not passed
\* changes nothing: no command queue, the deadline and the connected flag
\* included; so a ping call that queues the hello command found no ping
\* pending and leaves one pending.
PendingPingIdle ==
    [][PingStep =>
        /\ (ping_timeout_time # None /\ ~is_timed_out(ping_timeout_time, now)) =>
               UNCHANGED <<bufVars, treeVars, widgetVars, existing_types,
                           viewVars, connVars>>
        /\ command_queue' # command_queue =>
               ping_timeout_time = None /\ ping_timeout_time' # None]_vars

\* ping was called with a ping pending, before its deadline and after the
\* hello command of that ping was written out: the deadline is not the one
\* this call would set and the home window's queue is empty
PendingPingWitness ==
    /\ op.name = "ping"
    /\ ping_timeout_time # None
    /\ now < ping_timeout_time[1]
    /\ ping_timeout_time[1] # now + op.timeout_s
    /\ command_queue[home_window] = <<>>

\* C22: when read_responses returns normally the frame queue is empty and
\* every frame there was, an empty frame and the frames behind it included,
\* has been popped and processed in the order the frames were completed.
ReadCycleComplete ==
    [][(ReadStep /\ err' = "none") =>
        /\ queue' = <<>>
        /\ handled' = CallsFor(queue \o op'.frames)]_vars

\* C22, what the read loop does: a cycle that returns normally has emptied
\* the queue and processed every frame in order when no frame is empty; at
\* the first empty frame it stops, that frame popped and the frames behind
\* it left in the queue, not processed.
ReadCycleStopsAtEmpty ==
    [][(ReadStep /\ err' = "none") =>
        LET all == queue \o op'.frames
        IN  /\ (\A k \in 1..Len(all) : all[k] # <<>>) =>
                   /\ queue' = <<>>
                   /\ handled' = CallsFor(all)
            /\ \A k \in 1..Len(all) :
                   (all[k] = <<>> /\ \A j \in 1..(k - 1) : all[j] # <<>>) =>
                       /\ queue' = SubSeq(all, k + 1, Len(all))
                       /\ handled' = CallsFor(SubSeq(all, 1, k - 1))]_vars

\* a read cycle met an empty frame and returned with the hello response
\* behind it still queued and no handler called
ReadCycleWitness ==
    /\ op.name = "read_responses"
    /\ Len(op.frames) = 2
    /\ op.frames[1] = <<>>
    /\ op.frames[2] = HelloYes
    /\ err = "none"
    /\ queue = <<HelloYes>>
    /\ handled = <<>>
    /\ ~_connected

\* C24: the connected flag changes only in a read cycle that handled a hello
\* response and in a ping call or a query of connected that finds the
\* deadline passed; a ping call while connected with no ping pending sets the
\* deadline and leaves the flag true, and a query of connected before the
\* deadline reports true and leaves flag and deadline as they were.
ConnectedChangesOnly ==
    [][/\ _connected' # _connected =>
              \/ ReadStep /\ HelloCalls(handled') # <<>>
              \/ /\ PingStep \/ QueryStep
                 /\ is_timed_out(ping_timeout_time, now)
                 /\ ~_connected'
       /\ (PingStep /\ _connected /\ ping_timeout_time = None) =>
              /\ _connected'
              /\ ping_timeout_time' = Some(now + op'.timeout_s)
       /\ (QueryStep /\ _connected /\ ping_timeout_time # None
              /\ ~is_timed_out(ping_timeout_time, now)) =>
              /\ ret' = Some(TRUE)
              /\ UNCHANGED <<_connected, ping_timeout_time>>]_vars

\* connected was read while connected, with a ping pending and its deadline
\* not reached, and reported true
ConnectedChangesWitness ==
    /\ op.name = "connected"
    /\ ret = Some(TRUE)
    /\ _connected
    /\ ping_timeout_time # None
    /\ now < ping_timeout_time[1]

\* ------------------------------------------------ decode specification
\* the bytes frames are made of: the codes 0x0001, registered, and 0x0000,
\* 0x0002 and others, not registered; declared lengths 0, 1, 2 and above
FrameBytes == {0, 1, 2}

\* StoneResponseType.decode(raw) called on its own
Decode(raw) ==
    /\ \E response \in {decode(raw, existing_types)} :
           /\ err' = IF response.kind = "ValueError" THEN "ValueError" ELSE "none"
           /\ ret' = IF response.kind \in {"ValueError", "None"}
                     THEN None ELSE Some(response)
    /\ op' = [name |-> "decode", raw |-> raw]
    /\ UNCHANGED <<bufVars, treeVars, widgetVars, existing_types, viewVars, connVars, now,
                   histVars, ioVars>>

\* one call of decode on the display as constructed, for every frame
DecodeAny ==
    /\ op.name = "__init__"
    /\ \E raw \in SeqsOf(FrameBytes, 0, MaxRaw) : Decode(raw)

NextDecode == DecodeAny

SpecDecode == Init /\ [][NextDecode]_vars

\* C10: decode of a frame with its 4-byte header raises the ValueError
\* exactly when the number of bytes after the header differs from the length
\* bytes 2..3 declare, big-endian, whether or not the code is registered.
DecodeLengthCheck ==
    (op.name = "decode" /\ Len(op.raw) >= 4) =>
        ((err = "ValueError") <=>
            (Len(op.raw) - 4 # op.raw[3] * 256 + op.raw[4]))

\* decode raised the ValueError for a frame of the code 0x0002, which is not
\* registered, declaring one payload byte and carrying none
DecodeLengthWitness ==
    /\ op.name = "decode"
    /\ op.raw = <<0, 2, 0, 1>>
    /\ err = "ValueError"

\* ------------------------------------------------- write specification
\* StoneDisplay.gather_commands consumed to its end, list(gather_commands())
GatherCommands ==
    /\ LET order == all_widgets(windows, children)
       IN  /\ ret' = Some(gather_commands(order, command_queue))
           /\ command_queue' =
                  [w \in 1..Len(command_queue) |->
                      IF \E i \in 1..Len(order) : order[i] = w
                      THEN <<>> ELSE command_queue[w]]
    /\ op' = [name |-> "gather_commands"]
    /\ err' = "none"
    /\ UNCHANGED props
    /\ QueueOnly

\* the display with a widget w1 under its home window and a second window w2
InitWrite ==
    /\ buffer = <<>>
    /\ buffering = FALSE
    /\ queue = <<>>
    /\ windows = <<home_window, 3>>
    /\ children = << <<2>>, <<>>, <<>> >>
    /\ instance_name = <<home_page, w1, w2>>
    /\ command_queue = << <<>>, <<>>, <<>> >>
    /\ props = <<NewProps, NewProps, NewProps>>
    /\ response_handlers =
           << <<[key |-> 1, value |-> "_set_connected"]>>, <<>>, <<>> >>
    /\ existing_types = <<[key |-> 1, value |-> sys_hello_response]>>
    /\ _brightness = 100
    /\ _index = <<None, None, None>>
    /\ widget_class = <<"StoneWindow", "StoneWidget", "StoneWindow">>
    /\ templates = [w \in 1..3 |-> set_visible]
    /\ _connected = FALSE
    /\ ping_timeout_time = None
    /\ serial = FALSE
    /\ now = 0
    /\ fed = <<>>
    /\ popped = <<>>
    /\ pop_none = FALSE
    /\ sent = <<>>
    /\ last_push = <<>>
    /\ handled = <<>>
    /\ written = <<>>
    /\ answered = None
    /\ op = [name |-> "add_window"]
    /\ ret = Some(3)
    /\ err = "none"

NextWrite ==
    \/ SetEnabledAny
    \/ SetVisibleAny
    \/ GatherCommands

SpecWrite == InitWrite /\ [][NextWrite]_vars

\* the place of widget w in the traversal
PlaceOf(w) ==
    CHOOSE i \in 1..Len(all_widgets(windows, children)) :
        all_widgets(windows, children)[i] = w

\* the commands of out that are bound to widget w, in the order of out
BoundTo(out, w) == SelectSeq(out, LAMBDA command : command.widget = Some(w))

\* C13: gather_commands consumed to its end yields the commands of a widget
\* earlier in the traversal before those of a later one, yields of every
\* widget exactly its pending commands in queue order, and leaves every
\* widget's queue empty.
GatherDrainsInOrder ==
    [][op'.name = "gather_commands" =>
        LET out == ret'[1]
        IN  /\ \A i, j \in 1..Len(out) :
                   i < j => PlaceOf(out[i].widget[1]) <= PlaceOf(out[j].widget[1])
            /\ \A w \in Widgets :
                   /\ Len(BoundTo(out, w)) = Len(command_queue[w])
                   /\ \A i \in 1..Len(command_queue[w]) :
                          BoundTo(out, w)[i] = command_queue[w][i].value
            /\ \A w \in Widgets : command_queue'[w] = <<>>]_vars

\* gather_commands has yielded five commands, two of the second window, then
\* one of the home window, then two of w1, and no queue holds a command
GatherWitness ==
    /\ op.name = "gather_commands"
    /\ Len(ret[1]) = 5
    /\ ret[1][1].widget = Some(3)
    /\ ret[1][2].widget = Some(3)
    /\ ret[1][3].widget = Some(home_window)
    /\ ret[1][4].cmd_code = "set_visible"
    /\ ret[1][5].cmd_code = "set_enable"
    /\ \A w \in Widgets : command_queue[w] = <<>>

\* C14: visible = true set on the widget named w1 with nothing else pending
\* makes gather_commands yield one command, serialized as message_start, an
\* object of exactly the entries cmd_code "set_visible", type "widget",
\* widget "w1", visible true, and message_end.
VisibleEndToEnd ==
    [][(/\ op'.name = "gather_commands"
        /\ op.name = "visible"
        /\ op.value = TRUE
        /\ instance_name[op.widget] = w1
        /\ Len(command_queue[op.widget]) = 1
        /\ \A w \in Widgets \ {op.widget} : command_queue[w] = <<>>) =>
        /\ Len(ret'[1]) = 1
        /\ LET packet == serialized(ret'[1][1], instance_name)
           IN  /\ packet.start = <<83, 84, 60>>
               /\ packet.end = <<62, 69, 84>>
               /\ Len(packet.object) = 4
               /\ DictKeys(packet.object) = {"cmd_code", "type", "widget", "visible"}
               /\ DictGet(packet.object, "cmd_code") = "set_visible"
               /\ DictGet(packet.object, "type") = "widget"
               /\ DictGet(packet.object, "widget") = <<119, 49>>
               /\ DictGet(packet.object, "visible") = TRUE]_vars

\* gather_commands has yielded the one command set_visible of w1, visible
\* true, after the setter found the queues empty
VisibleEndToEndWitness ==
    /\ op.name = "gather_commands"
    /\ Len(ret[1]) = 1
    /\ ret[1][1].cmd_code = "set_visible"
    /\ ret[1][1].widget = Some(2)
    /\ DictGet(ret[1][1].cmd_items, "visible") = TRUE
    /\ props[2].enabled
    /\ props[home_window].visible /\ props[home_window].enabled
    /\ props[3].visible /\ props[3].enabled

\* ------------------------------------------ deferred write specification
\* the display of the write specification, no serial port configured yet:
\* visible is set on any widget, w1 is disabled, and config_serial and
\* write_commands are called
DisableW1 == SetEnabled(2, FALSE)

NextDefer ==
    \/ DisableW1
    \/ SetVisibleAny
    \/ ConfigSerial
    \/ WriteCommands

SpecDefer == InitWrite /\ [][NextDefer]_vars

\* the widget a written packet names, and the packets of out naming w
WidgetNamed(packet) ==
    CHOOSE w \in Widgets : instance_name[w] = DictGet(packet.object, "widget")
PacketsFor(out, w) == SelectSeq(out, LAMBDA packet : WidgetNamed(packet) = w)

\* C26: write_commands with no serial port leaves every command queue and
\* what was written as they were, so what is pending stays pending; with a
\* serial port it writes every pending command, the widgets in traversal
\* order and each widget's commands in queue order, and empties the queues.
NothingLostUnconfigured ==
    [][op'.name = "write_commands" =>
        IF ~serial
        THEN UNCHANGED <<command_queue, written>>
        ELSE /\ \A i, j \in 1..Len(written') :
                    i < j => PlaceOf(WidgetNamed(written'[i]))
                                 <= PlaceOf(WidgetNamed(written'[j]))
             /\ \A w \in Widgets :
                    /\ Len(PacketsFor(written', w)) = Len(command_queue[w])
                    /\ \A i \in 1..Len(command_queue[w]) :
                           PacketsFor(written', w)[i] =
                               serialized(command_queue[w][i].value, instance_name)
             /\ \A w \in Widgets : command_queue'[w] = <<>>]_vars

\* write_commands was called with no serial port while commands were
\* pending on w1 and on the second window: they are pending still and
\* nothing was written
NothingLostWitness ==
    /\ op.name = "write_commands"
    /\ ~serial
    /\ Len(command_queue[2]) = 2
    /\ Len(command_queue[3]) = 1
    /\ written = <<>>

\* ----------------------------------------------- routing specification
\* StoneWidget.add_response_handler(response, func) on widget w
AddResponseHandler(w, cmd_code, func) ==
    /\ response_handlers' = [response_handlers EXCEPT ![w] = DictSet(@, cmd_code, func)]
    /\ op' = [name |-> "add_response_handler", widget |-> w, cmd_code |-> cmd_code]
    /\ ret' = None
    /\ err' = "none"
    /\ UNCHANGED <<bufVars, treeVars, command_queue, props, existing_types, viewVars,
                   connVars, now, histVars, ioVars>>

\* a widget response type of the code 0x0002, as
\* StoneWidgetResponseType(0x0002, parser) registers it
widget_event == [cmd_code |-> 2, scoped |-> TRUE, parser |-> "data"]

\* the display with the widgets w1 and w2 under its home window and the
\* widget response type registered
InitRoute ==
    /\ buffer = <<>>
    /\ buffering = FALSE
    /\ queue = <<>>
    /\ windows = <<home_window>>
    /\ children = << <<2, 3>>, <<>>, <<>> >>
    /\ instance_name = <<home_page, w1, w2>>
    /\ command_queue = << <<>>, <<>>, <<>> >>
    /\ props = <<NewProps, NewProps, NewProps>>
    /\ response_handlers =
           << <<[key |-> 1, value |-> "_set_connected"]>>, <<>>, <<>> >>
    /\ existing_types = <<[key |-> 1, value |-> sys_hello_response],
                          [key |-> 2, value |-> widget_event]>>
    /\ _brightness = 100
    /\ _index = <<None, None, None>>
    /\ widget_class = <<"StoneWindow", "StoneWidget", "StoneWidget">>
    /\ templates = [w \in 1..3 |-> set_visible]
    /\ _connected = FALSE
    /\ ping_timeout_time = None
    /\ serial = FALSE
    /\ now = 0
    /\ fed = <<>>
    /\ popped = <<>>
    /\ pop_none = FALSE
    /\ sent = <<>>
    /\ last_push = <<>>
    /\ handled = <<>>
    /\ written = <<>>
    /\ answered = None
    /\ op = [name |-> "StoneResponseType", type |-> widget_event]
    /\ ret = None
    /\ err = "none"

\* frames of the widget response: for w1 with a trailing field after the
\* space, for w2 the name alone, for w3, which no widget is called
EventW1 == <<0, 2, 0, 4, 119, 49, 32, 7>>
EventW2 == <<0, 2, 0, 2, 119, 50>>
EventW3 == <<0, 2, 0, 2, 119, 51>>
RouteFrames == {HelloYes, EventW1, EventW2, EventW3}

AddResponseHandlerAny ==
    \E w \in Widgets : \E cmd_code \in {1, 2} :
        AddResponseHandler(w, cmd_code, "handler")

ReadResponsesRoute ==
    /\ serial
    /\ \E n \in 0..(MaxFrames - Len(queue)) :
           \E frames \in [1..n -> RouteFrames] :
               /\ ReadResponses(Wire(frames))
               /\ op' = [name |-> "read_responses", frames |-> frames]

NextRoute ==
    \/ ConfigSerial
    \/ AddResponseHandlerAny
    \/ ReadResponsesRoute

SpecRoute == InitRoute /\ [][NextRoute]_vars

\* the code and the payload of a frame, and the name its payload begins with
CodeOf(frame) == frame[1] * 256 + frame[2]
PayloadOf(frame) == SubSeq(frame, 5, Len(frame))
NameIn(payload) ==
    LET spaces == {i \in 1..Len(payload) : payload[i] = 32}
    IN  IF spaces = {} THEN payload
        ELSE SubSeq(payload, 1, (CHOOSE i \in spaces : \A j \in spaces : i <= j) - 1)

\* the frame is complete and length-consistent, its code is registered and,
\* if the code is widget-scoped, a widget has the name of its payload
Routable(frame) ==
    /\ Len(frame) >= 4
    /\ ~BadLength(frame)
    /\ CodeOf(frame) \in DictKeys(existing_types)
    /\ DictGet(existing_types, CodeOf(frame)).scoped =>
           \E w \in Widgets : instance_name[w] = NameIn(PayloadOf(frame))

\* the widget a routable frame is for
TargetOf(frame) ==
    IF DictGet(existing_types, CodeOf(frame)).scoped
    THEN CHOOSE w \in Widgets : instance_name[w] = NameIn(PayloadOf(frame))
    ELSE home_window

\* C15: in a read cycle of routable frames the handler calls are, frame by
\* frame, one call on the widget named in the payload for a widget-scoped
\* response and one call on the home window for any other response, where
\* that widget handles the code, and no call on any other widget.
RoutedByName ==
    [][ReadStep =>
        LET all == queue \o op'.frames
            handling == SelectSeq(all, LAMBDA f :
                            /\ Routable(f)
                            /\ CodeOf(f) \in DictKeys(response_handlers[TargetOf(f)]))
        IN  (\A k \in 1..Len(all) : Routable(all[k])) =>
                /\ err' = "none"
                /\ queue' = <<>>
                /\ Len(handled') = Len(handling)
                /\ \A i \in 1..Len(handling) :
                       /\ handled'[i].widget = TargetOf(handling[i])
                       /\ handled'[i].cmd_code = CodeOf(handling[i])
                       /\ handled'[i].raw_data = PayloadOf(handling[i])]_vars

\* with every widget handling both codes, a read cycle called the handler
\* of w1 for the widget response naming w1 and that of the home window for
\* the hello response, and no other
RoutedWitness ==
    /\ op.name = "read_responses"
    /\ Len(op.frames) = 2
    /\ op.frames[1] = EventW1
    /\ op.frames[2] = HelloYes
    /\ \A w \in Widgets : DictKeys(response_handlers[w]) = {1, 2}
    /\ Len(handled) = 2
    /\ handled[1].widget = 2
    /\ handled[2].widget = home_window

\* -------------------------------------- command creation specification
\* StoneCommandType.new() and StoneWidgetCommandType.new() on a command type
NewCommand(ctype) ==
    /\ \E command \in {new(ctype)} :
           IF command.error = "none"
           THEN /\ ret' = Some(command)
                /\ err' = "none"
           ELSE /\ ret' = None
                /\ err' = command.error
    /\ op' = [name |-> "new", ctype |-> ctype]
    /\ UNCHANGED <<bufVars, treeVars, widgetVars, existing_types, viewVars,
                   connVars, now, histVars, ioVars>>

\* the command types new is called on: a system type, widget types with no
\* widget assigned, and widget types assigned to a widget by for_widget
CommandTypes ==
    {sys_hello, set_enable, set_visible}
        \cup {for_widget(set_enable, w) : w \in Widgets}

NewCommandAny == \E ctype \in CommandTypes : NewCommand(ctype)

NextCommand ==
    \/ NextQueue
    \/ NewCommandAny

SpecCommand == InitQueue /\ [][NextCommand]_vars

\* the serialized command names the widget w
SerializedFor(command, w) ==
    \E i \in 1..Len(serialized(command, instance_name).object) :
        /\ serialized(command, instance_name).object[i].key = "widget"
        /\ serialized(command, instance_name).object[i].value = instance_name[w]

\* C17: new on a widget command type with no widget assigned raises
\* ValueError and returns no command, and on any other type returns a command;
\* so every command there is, returned by new or queued by push_command, has
\* its widget when it is serialized, and a widget command queued through
\* push_command on a widget is bound to that widget.
CreationChecked ==
    /\ op.name = "new" =>
           /\ (err = "ValueError") <=> (op.ctype.scoped /\ op.ctype.widget = None)
           /\ err \in {"none", "ValueError"}
           /\ err = "ValueError" => ret = None
           /\ err = "none" =>
                  /\ ret # None
                  /\ ret[1].cmd_code = op.ctype.cmd_code
                  /\ ret[1].scoped = op.ctype.scoped
                  /\ ret[1].scoped =>
                         /\ ret[1].widget = op.ctype.widget
                         /\ ret[1].widget # None
                         /\ SerializedFor(ret[1], ret[1].widget[1])
    /\ \A w \in Widgets : \A i \in 1..Len(command_queue[w]) :
           command_queue[w][i].value.scoped =>
               /\ command_queue[w][i].value.widget = Some(w)
               /\ SerializedFor(command_queue[w][i].value, w)

\* new on set_visible with no widget assigned raised ValueError while a
\* command pushed on w1 waits in its queue
CreationWitness ==
    /\ op.name = "new"
    /\ op.ctype = set_visible
    /\ err = "ValueError"
    /\ command_queue[2] # <<>>

\* ------------------------------------------------ binding specification
\* templates[t].for_widget(w): the copy is returned
ForWidget(t, w) ==
    /\ ret' = Some(for_widget(templates[t], w))
    /\ templates' = [templates EXCEPT ![t] = for_widget_self(@, w)]
    /\ op' = [name |-> "for_widget", template |-> t, widget |-> w]
    /\ err' = "none"
    /\ UNCHANGED <<bufVars, treeVars, widgetVars, _brightness, _index,
                   widget_class, existing_types, connVars, now, histVars, ioVars>>

\* w.push_command(templates[t], visible = value): for_widget(w) on the
\* template, new() on the copy, the fields, the queue entry
PushTemplate(w, t, value) ==
    /\ command_queue' = [command_queue EXCEPT ![w] =
           push_command(@, w, templates[t], <<[key |-> "visible", value |-> value]>>)]
    /\ templates' = [templates EXCEPT ![t] = for_widget_self(@, w)]
    /\ op' = [name |-> "push_command", template |-> t, widget |-> w]
    /\ ret' = None
    /\ err' = "none"
    /\ UNCHANGED <<bufVars, treeVars, props, response_handlers, _brightness,
                   _index, widget_class, existing_types, connVars, now,
                   histVars, ioVars>>

\* templates[t].new()
NewFromTemplate(t) ==
    /\ \E command \in {new(templates[t])} :
           IF command.error = "none"
           THEN /\ ret' = Some(command)
                /\ err' = "none"
           ELSE /\ ret' = None
                /\ err' = command.error
    /\ op' = [name |-> "new", template |-> t]
    /\ UNCHANGED <<bufVars, treeVars, widgetVars, existing_types, viewVars,
                   connVars, now, histVars, ioVars>>

ForWidgetAny == \E t \in Widgets : \E w \in Widgets : ForWidget(t, w)
\* the command type of the home window is pushed on any widget
PushTemplateAny ==
    \E w \in Widgets : \E value \in BOOLEAN : PushTemplate(w, home_window, value)
NewFromTemplateAny == \E t \in Widgets : NewFromTemplate(t)

NextBind ==
    \/ ForWidgetAny
    \/ PushTemplateAny
    \/ NewFromTemplateAny
    \/ SetEnabledAny
    \/ PopCommandAny

SpecBind == InitQueue /\ [][NextBind]_vars

\* the set_visible command queued on w, if there is one, names w
VisibleNames(w) ==
    \A i \in 1..Len(command_queue[w]) :
        command_queue[w][i].key = "set_visible" =>
            /\ command_queue[w][i].value.widget = Some(w)
            /\ SerializedFor(command_queue[w][i].value, w)

\* C21: for_widget returns a command type with the widget assigned and
\* leaves the command type it is called on without a widget, as does
\* push_command; so new on the template keeps raising ValueError, and the
\* commands one template was pushed with on two widgets each name the widget
\* they were pushed on.
BindingCopies ==
    /\ \A t \in Widgets : templates[t] = set_visible /\ templates[t].widget = None
    /\ op.name = "for_widget" =>
           /\ ret # None
           /\ ret[1] = [set_visible EXCEPT !.widget = Some(op.widget)]
    /\ op.name = "new" => err = "ValueError" /\ ret = None
    /\ op.name = "push_command" =>
           \E i \in 1..Len(command_queue[op.widget]) :
               command_queue[op.widget][i].key = "set_visible"
    /\ \A w \in Widgets : VisibleNames(w)

\* the home window's set_visible was pushed on the home window and then on
\* w1: both queues hold their set_visible command
BindingWitness ==
    /\ op.name = "push_command"
    /\ op.template = home_window
    /\ op.widget = 2
    /\ \E i \in 1..Len(command_queue[home_window]) :
           command_queue[home_window][i].key = "set_visible"
    /\ \E i \in 1..Len(command_queue[2]) :
           /\ command_queue[2][i].key = "set_visible"
           /\ command_queue[2][i].value.widget = Some(2)

\* ------------------------------------------------- fields specification
\* w.push_command(ctype, **kwargs)
PushFields(w, ctype, kwargs) ==
    /\ command_queue' = [command_queue EXCEPT ![w] = push_command(@, w, ctype, kwargs)]
    /\ op' = [name |-> "push_command", widget |-> w, kwargs |-> kwargs]
    /\ ret' = None
    /\ err' = "none"
    /\ UNCHANGED props
    /\ QueueOnly

\* the keyword arguments: a field of the command and fields named as the
\* entries of the body are
FieldKeys == {"enable", "cmd_code", "type", "widget"}
FieldValues(key) ==
    IF key = "enable" THEN BOOLEAN
    ELSE IF key = "cmd_code" THEN {"set_xy"}
    ELSE IF key = "type" THEN {"label"}
    ELSE {w2}

\* keyword arguments have distinct names
RECURSIVE KwargsOver(_)
KwargsOver(keys) ==
    IF keys = <<>> THEN {<<>>}
    ELSE {<<[key |-> Head(keys), value |-> v]>> \o rest :
              v \in FieldValues(Head(keys)), rest \in KwargsOver(Tail(keys))}

\* the display pushes its system command on the home window, a widget its
\* widget command on itself
PushFieldsAny ==
    \E w \in Widgets : \E ctype \in {IF w = home_window THEN sys_hello ELSE set_enable} :
        \E n \in 0..MaxFields : \E keys \in [1..n -> FieldKeys] :
            /\ \A i, j \in 1..n : i # j => keys[i] # keys[j]
            /\ \E kwargs \in KwargsOver(keys) : PushFields(w, ctype, kwargs)

NextFields ==
    \/ PushFieldsAny
    \/ PopCommandAny

SpecFields == InitQueue /\ [][NextFields]_vars

\* the serialized object of a command and the entries its body makes
ObjectOf(command) == serialized(command, instance_name).object
Reserved(command) ==
    IF command.scoped THEN {"cmd_code", "type", "widget"} ELSE {"cmd_code", "type"}

\* C23: the serialized object's cmd_code, type and, for a widget command,
\* widget entries are the command's code, type and widget name, whatever
\* fields the caller supplied.
ReservedKeysKept ==
    \A w \in Widgets : \A i \in 1..Len(command_queue[w]) :
        LET command == command_queue[w][i].value
        IN  /\ Reserved(command) \subseteq DictKeys(ObjectOf(command))
            /\ DictGet(ObjectOf(command), "cmd_code") = command.cmd_code
            /\ DictGet(ObjectOf(command), "type") = command.cmd_type
            /\ command.scoped =>
                   DictGet(ObjectOf(command), "widget") = instance_name[w]

\* C23, what serialized does: the three entries are always there, with the
\* command's own values unless the caller supplied a field of that name,
\* whose value then takes the entry.
ReservedKeysOverridden ==
    \A w \in Widgets : \A i \in 1..Len(command_queue[w]) :
        LET command == command_queue[w][i].value
            supplied == DictKeys(command.cmd_items)
        IN  /\ Reserved(command) \subseteq DictKeys(ObjectOf(command))
            /\ \A key \in Reserved(command) \cap supplied :
                   DictGet(ObjectOf(command), key) = DictGet(command.cmd_items, key)
            /\ "cmd_code" \notin supplied =>
                   DictGet(ObjectOf(command), "cmd_code") = command.cmd_code
            /\ "type" \notin supplied =>
                   DictGet(ObjectOf(command), "type") = command.cmd_type
            /\ (command.scoped /\ "widget" \notin supplied) =>
                   DictGet(ObjectOf(command), "widget") = instance_name[w]

\* set_enable was pushed on w1 with the fields cmd_code and widget: the
\* serialized object names the code set_xy and the widget w2
ReservedKeysWitness ==
    /\ op.name = "push_command"
    /\ op.widget = 2
    /\ Len(command_queue[2]) = 1
    /\ command_queue[2][1].key = "set_enable"
    /\ DictKeys(command_queue[2][1].value.cmd_items) = {"cmd_code", "widget"}
    /\ DictGet(ObjectOf(command_queue[2][1].value), "cmd_code") = "set_xy"
    /\ DictGet(ObjectOf(command_queue[2][1].value), "widget") = w2

\* -------------------------------------------- validation specification
\* the command types StoneDisplay.set_brightness and StoneSlideView.set_view
set_brightness == StoneCommandType("set_brightness", "system")
set_view == StoneWidgetCommandType("set_view", "slide_view")

\* children[index] of Python: a negative index counts from the end
InIndexRange(seq, index) == -Len(seq) <= index /\ index < Len(seq)
PyIndex(seq, index) == IF index >= 0 THEN seq[index + 1] ELSE seq[Len(seq) + index + 1]

\* the brightness setter that checks the upper limit only
BrightnessRejectedUpperOnly(value) == value > 100

\* StoneDisplay.brightness setter: the value is refused
BrightnessRejected(value) == value > 100 \/ value < 0

\* StoneSlideView.current_index and StoneViewSwitch.current_index setters:
\* the value is refused
IndexRejected(w, value) == value >= Len(children[w])

\* StoneDisplay.brightness setter
SetBrightness(value) ==
    /\ IF BrightnessRejected(value)
       THEN /\ err' = "ValueError"
            /\ UNCHANGED <<_brightness, command_queue>>
       ELSE /\ _brightness' = value
            /\ command_queue' = [command_queue EXCEPT ![home_window] =
                   push_command(@, home_window, set_brightness,
                                <<[key |-> "brightness", value |-> value]>>)]
            /\ err' = "none"
    /\ op' = [name |-> "brightness", value |-> value]
    /\ ret' = None
    /\ UNCHANGED <<bufVars, treeVars, props, response_handlers, _index,
                   widget_class, templates, existing_types, connVars, now, histVars, ioVars>>

\* StoneSlideView.current_index setter on the slide view w
SetSlideIndex(w, value) ==
    /\ widget_class[w] = "StoneSlideView"
    /\ IF IndexRejected(w, value)
       THEN /\ err' = "IndexError"
            /\ UNCHANGED <<_index, command_queue>>
       ELSE /\ _index' = [_index EXCEPT ![w] = Some(value)]
            /\ command_queue' = [command_queue EXCEPT ![w] =
                   push_command(@, w, set_view,
                                <<[key |-> "index", value |-> value]>>)]
            /\ err' = "none"
    /\ op' = [name |-> "current_index", widget |-> w, value |-> value]
    /\ ret' = None
    /\ UNCHANGED <<bufVars, treeVars, props, response_handlers, _brightness,
                   widget_class, templates, existing_types, connVars, now, histVars, ioVars>>

\* StoneViewSwitch.current_index setter on the view switch w, with
\* refresh_views: every child's visible is set to whether it is the child
\* at the index; looking up an index below -len(children) raises IndexError
\* at the first child, the index being stored already
SetSwitchIndex(w, value) ==
    /\ widget_class[w] = "StoneViewSwitch"
    /\ IF IndexRejected(w, value)
       THEN /\ err' = "IndexError"
            /\ UNCHANGED <<_index, props, command_queue>>
       ELSE /\ _index' = [_index EXCEPT ![w] = Some(value)]
            /\ IF children[w] = <<>>
               THEN /\ err' = "none"
                    /\ UNCHANGED <<props, command_queue>>
               ELSE IF ~InIndexRange(children[w], value)
               THEN /\ err' = "IndexError"
                    /\ UNCHANGED <<props, command_queue>>
               ELSE LET current_view == PyIndex(children[w], value)
                        views == {children[w][i] : i \in 1..Len(children[w])}
                    IN  /\ props' = [v \in 1..Len(props) |->
                               IF v \in views
                               THEN [props[v] EXCEPT !.visible = (v = current_view)]
                               ELSE props[v]]
                        /\ command_queue' = [v \in 1..Len(command_queue) |->
                               IF v \in views
                               THEN push_command(command_queue[v], v, set_visible,
                                        <<[key |-> "visible",
                                           value |-> (v = current_view)]>>)
                               ELSE command_queue[v]]
                        /\ err' = "none"
    /\ op' = [name |-> "current_index", widget |-> w, value |-> value]
    /\ ret' = None
    /\ UNCHANGED <<bufVars, treeVars, response_handlers, _brightness,
                   widget_class, templates, existing_types, connVars, now, histVars, ioVars>>

\* the names "sv", "p1", "p2", "vs", "v1", "v2" in ASCII
sv == <<115, 118>>
p1 == <<112, 49>>
p2 == <<112, 50>>
vs == <<118, 115>>
v1 == <<118, 49>>
v2 == <<118, 50>>

\* the slide view and the view switch of the validation specification
slide_view == 2
view_switch == 5

\* the display with, under its home window, the slide view sv of the pages
\* p1 and p2 and the view switch vs of the views v1 and v2
InitValid ==
    /\ buffer = <<>>
    /\ buffering = FALSE
    /\ queue = <<>>
    /\ windows = <<home_window>>
    /\ children = << <<slide_view, view_switch>>, <<3, 4>>, <<>>, <<>>,
                     <<6, 7>>, <<>>, <<>> >>
    /\ instance_name = <<home_page, sv, p1, p2, vs, v1, v2>>
    /\ command_queue = [w \in 1..7 |-> <<>>]
    /\ props = [w \in 1..7 |-> NewProps]
    /\ response_handlers =
           [w \in 1..7 |-> IF w = home_window
                           THEN <<[key |-> 1, value |-> "_set_connected"]>>
                           ELSE <<>>]
    /\ existing_types = <<[key |-> 1, value |-> sys_hello_response]>>
    /\ _brightness = 100
    /\ _index = <<None, Some(0), None, None, Some(0), None, None>>
    /\ widget_class = <<"StoneWindow", "StoneSlideView", "StoneSlideViewPage",
                        "StoneSlideViewPage", "StoneViewSwitch", "StoneWidget",
                        "StoneWidget">>
    /\ templates = [w \in 1..7 |-> set_visible]
    /\ _connected = FALSE
    /\ ping_timeout_time = None
    /\ serial = FALSE
    /\ now = 0
    /\ fed = <<>>
    /\ popped = <<>>
    /\ pop_none = FALSE
    /\ sent = <<>>
    /\ last_push = <<>>
    /\ handled = <<>>
    /\ written = <<>>
    /\ answered = None
    /\ op = [name |-> "StoneWidget", parent |-> view_switch]
    /\ ret = Some(7)
    /\ err = "none"

\* the values the bounded properties are given
BrightnessValues == {-1, 0, 50, 100, 101}
IndexValues == {-3, -2, -1, 0, 1, 2}

SetBrightnessAny == \E value \in BrightnessValues : SetBrightness(value)
SetSlideIndexAny ==
    \E w \in Widgets : \E value \in IndexValues : SetSlideIndex(w, value)
SetSwitchIndexAny ==
    \E w \in Widgets : \E value \in IndexValues : SetSwitchIndex(w, value)

NextValid ==
    \/ SetBrightnessAny
    \/ SetSlideIndexAny
    \/ SetSwitchIndexAny

SpecValid == InitValid /\ [][NextValid]_vars

\* a step of one of the bounded setters and whether its value is outside
\* the allowed range
BrightnessStep == op'.name = "brightness"
IndexStep == op'.name = "current_index"
OutOfRange ==
    \/ BrightnessStep /\ (op'.value < 0 \/ op'.value > 100)
    \/ IndexStep /\ (op'.value < 0 \/ op'.value > Len(children[op'.widget]) - 1)
AboveRange ==
    \/ BrightnessStep /\ op'.value > 100
    \/ IndexStep /\ op'.value > Len(children[op'.widget]) - 1

\* what a refused value leaves: an error, and the stored values and every
\* command queue as they were
Refused ==
    /\ err' # "none"
    /\ UNCHANGED <<_brightness, _index, props, command_queue>>

\* C16: a brightness outside [0, 100], or a current_index outside
\* [0, number of children - 1], negative indices included, is answered with
\* an error and leaves the stored value and every command queue as they were.
OutOfRangeRefused == [][OutOfRange => Refused]_vars

\* C16, the part the setters do: a brightness outside [0, 100] and a
\* current_index above number of children - 1 are answered with an error and
\* leave the stored value and every command queue as they were.
AboveRangeRefused ==
    [][(AboveRange \/ (BrightnessStep /\ op'.value < 0)) => Refused]_vars

\* a negative brightness was refused after a brightness was stored and queued
AboveRangeWitness ==
    /\ op.name = "brightness"
    /\ op.value = -1
    /\ err = "ValueError"
    /\ _brightness = 50
    /\ command_queue[home_window] # <<>>

\* C16, where the slide view differs: the index -1 was stored and its
\* set_view command queued
NegativeIndexStored ==
    /\ op.name = "current_index"
    /\ op.widget = slide_view
    /\ op.value = -1
    /\ err = "none"
    /\ _index[slide_view] = Some(-1)
    /\ command_queue[slide_view] # <<>>

\* ---------------------------------------------- registry specification
\* a constructor that registers the new type before it looks for the code
NewResponseTypeOverwrite(cmd_code, parser, scoped) ==
    LET type == [cmd_code |-> cmd_code, scoped |-> scoped, parser |-> parser]
    IN  /\ existing_types' = DictSet(existing_types, cmd_code, type)
        /\ err' = IF cmd_code \in DictKeys(existing_types) THEN "KeyError" ELSE "none"
        /\ op' = [name |-> "StoneResponseType", type |-> type]
        /\ ret' = None
        /\ UNCHANGED <<bufVars, treeVars, widgetVars, viewVars, connVars, now,
                       histVars, ioVars>>

\* StoneResponseType.__init__ and, with scoped, StoneWidgetResponseType.__init__:
\* a code that is registered raises the KeyError, any other is registered
NewResponseType(cmd_code, parser, scoped) ==
    LET type == [cmd_code |-> cmd_code, scoped |-> scoped, parser |-> parser]
    IN  /\ IF cmd_code \in DictKeys(existing_types)
           THEN /\ err' = "KeyError"
                /\ UNCHANGED existing_types
           ELSE /\ existing_types' = DictSet(existing_types, cmd_code, type)
                /\ err' = "none"
        /\ op' = [name |-> "StoneResponseType", type |-> type]
        /\ ret' = None
        /\ UNCHANGED <<bufVars, treeVars, widgetVars, viewVars, connVars, now,
                       histVars, ioVars>>

\* the payload parsers given to response types
Parsers == {"hello", "data"}

NewResponseTypeAny ==
    \E cmd_code \in 1..MaxCode : \E parser \in Parsers : \E scoped \in BOOLEAN :
        NewResponseType(cmd_code, parser, scoped)

NextRegistry == NewResponseTypeAny

SpecRegistry == Init /\ [][NextRegistry]_vars

\* C12: creating a response type with a registered code raises the KeyError
\* and leaves the registry as it was, creating one with a new code registers
\* it, and no step changes the descriptor a registered code maps to: each
\* code maps to the first descriptor registered for it.
RegistryFirstWins ==
    [][/\ \A code \in DictKeys(existing_types) :
              /\ code \in DictKeys(existing_types')
              /\ DictGet(existing_types', code) = DictGet(existing_types, code)
       /\ op'.name = "StoneResponseType" =>
              IF op'.type.cmd_code \in DictKeys(existing_types)
              THEN /\ err' = "KeyError"
                   /\ existing_types' = existing_types
              ELSE /\ err' = "none"
                   /\ DictGet(existing_types', op'.type.cmd_code) = op'.type]_vars

\* with the code 0x0002 registered too, a second response type of the code
\* 0x0001 was refused and the code still maps to the hello response type
RegistryWitness ==
    /\ op.name = "StoneResponseType"
    /\ op.type.cmd_code = 1
    /\ op.type.parser = "data"
    /\ err = "KeyError"
    /\ DictGet(existing_types, 1) = sys_hello_response
    /\ 2 \in DictKeys(existing_types)

====
